---------------------------- MODULE Spec2Model ----------------------------
(***************************************************************************)
(* Model of the OpenAI Responses client of ChatGPT-Windows                 *)
(* (src/app/api/openai_client.py): ChatGPTClient.send_message with its     *)
(* validation, parameter negotiation (retry without temperature), stream   *)
(* decode loop with cooperative cancellation, reply extraction and error   *)
(* localisation.                                                           *)
(*                                                                         *)
(* Python str values are sequences of one-character strings, so that       *)
(* lower(), strip() and the substring test `in` are computed as the code   *)
(* computes them.  Other Python values are tagged records [t, v].          *)
(***************************************************************************)
EXTENDS Integers, Sequences, FiniteSets, TLC

(***************************************************************************)
(* Bounds of the model.                                                    *)
(***************************************************************************)
\* Longest event sequence the transport yields in one streaming call.
MaxEvents == 3

(***************************************************************************)
(* Python strings.                                                         *)
(***************************************************************************)
\* The lower-case letter of each upper-case ASCII letter.
LowerOf ==
    ("A" :> "a") @@ ("B" :> "b") @@ ("C" :> "c") @@ ("D" :> "d") @@ ("E" :> "e")
    @@ ("F" :> "f") @@ ("G" :> "g") @@ ("H" :> "h") @@ ("I" :> "i") @@ ("J" :> "j")
    @@ ("K" :> "k") @@ ("L" :> "l") @@ ("M" :> "m") @@ ("N" :> "n") @@ ("O" :> "o")
    @@ ("P" :> "p") @@ ("Q" :> "q") @@ ("R" :> "r") @@ ("S" :> "s") @@ ("T" :> "t")
    @@ ("U" :> "u") @@ ("V" :> "v") @@ ("W" :> "w") @@ ("X" :> "x") @@ ("Y" :> "y")
    @@ ("Z" :> "z")

\* str.lower() on one character.
LowerChar(ch) == IF ch \in DOMAIN LowerOf THEN LowerOf[ch] ELSE ch

RECURSIVE Lower(_)
\* str.lower()
Lower(s) == IF s = <<>> THEN <<>> ELSE <<LowerChar(Head(s))>> \o Lower(Tail(s))

\* The Python test `sub in s` on strings.
Contains(sub, s) ==
    \E i \in 0..(Len(s) - Len(sub)) : \A j \in 1..Len(sub) : s[i + j] = sub[j]

\* The characters str.strip() removes, among those the inputs are written in.
Whitespace == {" ", "\t", "\n", "\r"}

\* str.strip(): the string without its leading and trailing whitespace.
Strip(s) ==
    LET keep == {i \in 1..Len(s) : s[i] \notin Whitespace}
    IN  IF keep = {} THEN <<>>
        ELSE SubSeq(s, CHOOSE i \in keep : \A j \in keep : i <= j,
                       CHOOSE i \in keep : \A j \in keep : j <= i)

(***************************************************************************)
(* Python values: None, str, int, list, dict and attribute objects.        *)
(***************************************************************************)
None_ == [t |-> "None"]

PyStr(s) == [t |-> "str", v |-> s]

PyInt(n) == [t |-> "int", v |-> n]

PyList(xs) == [t |-> "list", v |-> xs]

\* A dict; d is a function from keys to values.
PyDict(d) == [t |-> "dict", v |-> d]

\* An object; a is a function from attribute names to values.
PyObj(a) == [t |-> "obj", v |-> a]

\* isinstance(x, str)
IsStr(x) == x.t = "str"

\* The truth value Python gives x in `if x:`.
Truthy(x) ==
    CASE x.t = "None" -> FALSE
      [] x.t = "str"  -> x.v # <<>>
      [] x.t = "int"  -> x.v # 0
      [] x.t = "list" -> x.v # <<>>
      [] x.t = "dict" -> DOMAIN x.v # {}
      [] OTHER        -> TRUE

\* getattr(x, name, None)
GetAttr(x, name) ==
    IF x.t = "obj" /\ name \in DOMAIN x.v THEN x.v[name] ELSE None_

(***************************************************************************)
(* ChatResponse (the dataclass and its defaults).                          *)
(***************************************************************************)
ChatResponse(success, content, error, cancelled) ==
    [success |-> success, content |-> content,
     error |-> error, cancelled |-> cancelled]

\* ChatResponse(success=False, error=e)
Failure(e) == ChatResponse(FALSE, <<>>, e, FALSE)

(***************************************************************************)
(* _localize_error: the ordered rule table, first match wins.              *)
(***************************************************************************)
\* The invalid-key (line 62) message; a character outside ASCII is written as its code point.
MsgInvalidApiKey ==
    <<"A","P","I","U+30AD","U+30FC","U+304C","U+7121","U+52B9","U+3067",
      "U+3059">>

\* The rate-limit (line 64) message; a character outside ASCII is written as its code point.
MsgRateLimit ==
    <<"U+30EC","U+30FC","U+30C8","U+5236","U+9650","U+306B","U+9054",
      "U+3057","U+307E","U+3057","U+305F","U+3002","U+3057","U+3070",
      "U+3089","U+304F","U+5F85","U+3063","U+3066","U+304B","U+3089",
      "U+518D","U+8A66","U+884C","U+3057","U+3066","U+304F","U+3060",
      "U+3055","U+3044">>

\* The quota (line 66) message; a character outside ASCII is written as its code point.
MsgQuota ==
    <<"A","P","I","U+5229","U+7528","U+67A0","U+304C","U+4E0D","U+8DB3",
      "U+3057","U+3066","U+3044","U+307E","U+3059">>

\* The connectivity (line 68) message; a character outside ASCII is written as its code point.
MsgConnection ==
    <<"U+63A5","U+7D9A","U+30A8","U+30E9","U+30FC",":"," ","U+30A4",
      "U+30F3","U+30BF","U+30FC","U+30CD","U+30C3","U+30C8","U+63A5",
      "U+7D9A","U+3092","U+78BA","U+8A8D","U+3057","U+3066","U+304F",
      "U+3060","U+3055","U+3044">>

\* The model-not-found (line 70) message; a character outside ASCII is written as its code point.
MsgModelNotFound ==
    <<"U+6307","U+5B9A","U+3055","U+308C","U+305F","U+30E2","U+30C7",
      "U+30EB","U+304C","U+898B","U+3064","U+304B","U+308A","U+307E",
      "U+305B","U+3093">>

\* The context-length (line 72) message; a character outside ASCII is written as its code point.
MsgContextLength ==
    <<"U+5165","U+529B","U+304C","U+9577","U+3059","U+304E","U+307E",
      "U+3059","U+3002","U+30C6","U+30AD","U+30B9","U+30C8","U+3092",
      "U+77ED","U+304F","U+3059","U+308B","U+304B","U+3001","U+6700",
      "U+5927","U+30C8","U+30FC","U+30AF","U+30F3","U+6570","U+3092",
      "U+4E0B","U+3052","U+3066","U+304F","U+3060","U+3055","U+3044">>

\* The output-token-configuration (line 74) message; a character outside ASCII is written as its code point.
MsgMaxTokens ==
    <<"U+51FA","U+529B","U+30C8","U+30FC","U+30AF","U+30F3","U+6570",
      "U+306E","U+8A2D","U+5B9A","U+3092","U+78BA","U+8A8D","U+3057",
      "U+3066","U+304F","U+3060","U+3055","U+3044">>

\* The empty-input message (line 208) of send_message.
MsgEmptyInput ==
    <<"U+5165","U+529B","U+30C6","U+30AD","U+30B9","U+30C8","U+304C",
      "U+7A7A","U+3067","U+3059">>

\* The missing-credential message (line 214) of send_message.
MsgNoApiKey ==
    <<"A","P","I","U+30AD","U+30FC","U+304C","U+8A2D","U+5B9A","U+3055",
      "U+308C","U+3066","U+3044","U+307E","U+305B","U+3093">>

\* Faulty variant of LocalizeError: the rate-limit rule lacks "rate limit".
LocalizeErrorUnderscoreOnly(error_message) ==
    LET error_lower == Lower(error_message)
        has(p) == Contains(p, error_lower)
    IN  IF has(<<"i","n","v","a","l","i","d","_","a","p","i","_","k","e","y">>)
           \/ has(<<"i","n","v","a","l","i","d"," ","a","p","i"," ","k","e","y">>)
        THEN MsgInvalidApiKey
        ELSE IF has(<<"r","a","t","e","_","l","i","m","i","t">>)
        THEN MsgRateLimit
        ELSE IF has(<<"i","n","s","u","f","f","i","c","i","e","n","t","_","q","u","o","t","a">>)
                \/ has(<<"i","n","s","u","f","f","i","c","i","e","n","t"," ","q","u","o","t","a">>)
        THEN MsgQuota
        ELSE IF has(<<"c","o","n","n","e","c","t","i","o","n">>)
        THEN MsgConnection
        ELSE IF has(<<"m","o","d","e","l","_","n","o","t","_","f","o","u","n","d">>)
                \/ has(<<"m","o","d","e","l"," ","n","o","t"," ","f","o","u","n","d">>)
        THEN MsgModelNotFound
        ELSE IF has(<<"c","o","n","t","e","x","t","_","l","e","n","g","t","h">>)
                \/ has(<<"m","a","x","i","m","u","m"," ","c","o","n","t","e","x","t">>)
        THEN MsgContextLength
        ELSE IF has(<<"m","a","x","_","t","o","k","e","n","s">>)
                \/ has(<<"m","a","x","_","o","u","t","p","u","t","_","t","o","k","e","n","s">>)
        THEN MsgMaxTokens
        ELSE error_message

\* Faulty variant of LocalizeError: the quota rule precedes the rate-limit rule.
LocalizeErrorQuotaFirst(error_message) ==
    LET error_lower == Lower(error_message)
        has(p) == Contains(p, error_lower)
    IN  IF has(<<"i","n","v","a","l","i","d","_","a","p","i","_","k","e","y">>)
           \/ has(<<"i","n","v","a","l","i","d"," ","a","p","i"," ","k","e","y">>)
        THEN MsgInvalidApiKey
        ELSE IF has(<<"i","n","s","u","f","f","i","c","i","e","n","t","_","q","u","o","t","a">>)
                \/ has(<<"i","n","s","u","f","f","i","c","i","e","n","t"," ","q","u","o","t","a">>)
        THEN MsgQuota
        ELSE IF has(<<"r","a","t","e","_","l","i","m","i","t">>)
                \/ has(<<"r","a","t","e"," ","l","i","m","i","t">>)
        THEN MsgRateLimit
        ELSE IF has(<<"c","o","n","n","e","c","t","i","o","n">>)
        THEN MsgConnection
        ELSE IF has(<<"m","o","d","e","l","_","n","o","t","_","f","o","u","n","d">>)
                \/ has(<<"m","o","d","e","l"," ","n","o","t"," ","f","o","u","n","d">>)
        THEN MsgModelNotFound
        ELSE IF has(<<"c","o","n","t","e","x","t","_","l","e","n","g","t","h">>)
                \/ has(<<"m","a","x","i","m","u","m"," ","c","o","n","t","e","x","t">>)
        THEN MsgContextLength
        ELSE IF has(<<"m","a","x","_","t","o","k","e","n","s">>)
                \/ has(<<"m","a","x","_","o","u","t","p","u","t","_","t","o","k","e","n","s">>)
        THEN MsgMaxTokens
        ELSE error_message

\* Faulty variant of LocalizeError: an unmatched message is returned lower-cased.
LocalizeErrorLowered(error_message) ==
    LET error_lower == Lower(error_message)
        has(p) == Contains(p, error_lower)
    IN  IF has(<<"i","n","v","a","l","i","d","_","a","p","i","_","k","e","y">>)
           \/ has(<<"i","n","v","a","l","i","d"," ","a","p","i"," ","k","e","y">>)
        THEN MsgInvalidApiKey
        ELSE IF has(<<"r","a","t","e","_","l","i","m","i","t">>)
                \/ has(<<"r","a","t","e"," ","l","i","m","i","t">>)
        THEN MsgRateLimit
        ELSE IF has(<<"i","n","s","u","f","f","i","c","i","e","n","t","_","q","u","o","t","a">>)
                \/ has(<<"i","n","s","u","f","f","i","c","i","e","n","t"," ","q","u","o","t","a">>)
        THEN MsgQuota
        ELSE IF has(<<"c","o","n","n","e","c","t","i","o","n">>)
        THEN MsgConnection
        ELSE IF has(<<"m","o","d","e","l","_","n","o","t","_","f","o","u","n","d">>)
                \/ has(<<"m","o","d","e","l"," ","n","o","t"," ","f","o","u","n","d">>)
        THEN MsgModelNotFound
        ELSE IF has(<<"c","o","n","t","e","x","t","_","l","e","n","g","t","h">>)
                \/ has(<<"m","a","x","i","m","u","m"," ","c","o","n","t","e","x","t">>)
        THEN MsgContextLength
        ELSE IF has(<<"m","a","x","_","t","o","k","e","n","s">>)
                \/ has(<<"m","a","x","_","o","u","t","p","u","t","_","t","o","k","e","n","s">>)
        THEN MsgMaxTokens
        ELSE error_lower

LocalizeError(error_message) ==
    LET error_lower == Lower(error_message)
        has(p) == Contains(p, error_lower)
    IN  IF has(<<"i","n","v","a","l","i","d","_","a","p","i","_","k","e","y">>)
           \/ has(<<"i","n","v","a","l","i","d"," ","a","p","i"," ","k","e","y">>)
        THEN MsgInvalidApiKey
        ELSE IF has(<<"r","a","t","e","_","l","i","m","i","t">>)
                \/ has(<<"r","a","t","e"," ","l","i","m","i","t">>)
        THEN MsgRateLimit
        ELSE IF has(<<"i","n","s","u","f","f","i","c","i","e","n","t","_","q","u","o","t","a">>)
                \/ has(<<"i","n","s","u","f","f","i","c","i","e","n","t"," ","q","u","o","t","a">>)
        THEN MsgQuota
        ELSE IF has(<<"c","o","n","n","e","c","t","i","o","n">>)
        THEN MsgConnection
        ELSE IF has(<<"m","o","d","e","l","_","n","o","t","_","f","o","u","n","d">>)
                \/ has(<<"m","o","d","e","l"," ","n","o","t"," ","f","o","u","n","d">>)
        THEN MsgModelNotFound
        ELSE IF has(<<"c","o","n","t","e","x","t","_","l","e","n","g","t","h">>)
                \/ has(<<"m","a","x","i","m","u","m"," ","c","o","n","t","e","x","t">>)
        THEN MsgContextLength
        ELSE IF has(<<"m","a","x","_","t","o","k","e","n","s">>)
                \/ has(<<"m","a","x","_","o","u","t","p","u","t","_","t","o","k","e","n","s">>)
        THEN MsgMaxTokens
        ELSE error_message

(***************************************************************************)
(* _is_temperature_error                                                   *)
(***************************************************************************)
\* Faulty variant of IsTemperatureError: the message is not lower-cased.
IsTemperatureErrorCaseSensitive(error_message) ==
    LET error_keywords ==
            { <<"u","n","s","u","p","p","o","r","t","e","d">>,
              <<"n","o","t"," ","s","u","p","p","o","r","t","e","d">>,
              <<"u","n","k","n","o","w","n">>,
              <<"i","n","v","a","l","i","d">>,
              <<"u","n","r","e","c","o","g","n","i","z","e","d">> }
    IN  IF ~Contains(<<"t","e","m","p","e","r","a","t","u","r","e">>, error_message)
        THEN FALSE
        ELSE \E kw \in error_keywords : Contains(kw, error_message)

IsTemperatureError(error_message) ==
    LET error_lower == Lower(error_message)
        error_keywords ==
            { <<"u","n","s","u","p","p","o","r","t","e","d">>,
              <<"n","o","t"," ","s","u","p","p","o","r","t","e","d">>,
              <<"u","n","k","n","o","w","n">>,
              <<"i","n","v","a","l","i","d">>,
              <<"u","n","r","e","c","o","g","n","i","z","e","d">> }
    IN  IF ~Contains(<<"t","e","m","p","e","r","a","t","u","r","e">>, error_lower)
        THEN FALSE
        ELSE \E kw \in error_keywords : Contains(kw, error_lower)

(***************************************************************************)
(* _extract_delta_text                                                     *)
(***************************************************************************)
\* Faulty variant of ExtractDeltaText: a "text" value that is not a string
\* falls through to the "content" key.
ExtractDeltaTextFallsThrough(event) ==
    LET delta == GetAttr(event, "delta")
    IN  IF delta.t = "None" THEN <<>>
        ELSE IF IsStr(delta) THEN delta.v
        ELSE IF delta.t = "dict"
        THEN IF "text" \in DOMAIN delta.v /\ IsStr(delta.v["text"])
             THEN delta.v["text"].v
             ELSE IF "content" \in DOMAIN delta.v
             THEN (IF IsStr(delta.v["content"]) THEN delta.v["content"].v ELSE <<>>)
             ELSE <<>>
        ELSE <<>>

ExtractDeltaText(event) ==
    LET delta == GetAttr(event, "delta")
    IN  IF delta.t = "None" THEN <<>>
        ELSE IF IsStr(delta) THEN delta.v
        ELSE IF delta.t = "dict"
        THEN IF "text" \in DOMAIN delta.v
             THEN (IF IsStr(delta.v["text"]) THEN delta.v["text"].v ELSE <<>>)
             ELSE IF "content" \in DOMAIN delta.v
             THEN (IF IsStr(delta.v["content"]) THEN delta.v["content"].v ELSE <<>>)
             ELSE <<>>
        ELSE <<>>

(***************************************************************************)
(* _extract_output_text.  The two loops return [found, text]: found is     *)
(* FALSE when the loop ends without executing a return statement.          *)
(***************************************************************************)
RECURSIVE ScanContentListAttributesOnly(_, _)
\* Faulty variant of ScanContentList: an element is probed for a text
\* attribute only, never for a "text" key.
ScanContentListAttributesOnly(content, i) ==
    IF i > Len(content) THEN [found |-> FALSE, text |-> <<>>]
    ELSE LET content_item == content[i]
             item_text == GetAttr(content_item, "text")
         IN  IF Truthy(item_text) /\ IsStr(item_text)
             THEN [found |-> TRUE, text |-> item_text.v]
             ELSE ScanContentListAttributesOnly(content, i + 1)

RECURSIVE ScanContentList(_, _)
\* for content_item in content (from index i on)
ScanContentList(content, i) ==
    IF i > Len(content) THEN [found |-> FALSE, text |-> <<>>]
    ELSE LET content_item == content[i]
             item_text == GetAttr(content_item, "text")
         IN  IF Truthy(item_text) /\ IsStr(item_text)
             THEN [found |-> TRUE, text |-> item_text.v]
             ELSE IF /\ content_item.t = "dict"
                     /\ "text" \in DOMAIN content_item.v
                     /\ IsStr(content_item.v["text"])
             THEN [found |-> TRUE, text |-> content_item.v["text"].v]
             ELSE ScanContentList(content, i + 1)

RECURSIVE ScanOutput(_, _)
\* for item in output (from index i on)
ScanOutput(output, i) ==
    IF i > Len(output) THEN [found |-> FALSE, text |-> <<>>]
    ELSE LET item == output[i]
             text == GetAttr(item, "text")
             content == GetAttr(item, "content")
             inner == IF content.t = "list"
                      THEN ScanContentList(content.v, 1)
                      ELSE [found |-> FALSE, text |-> <<>>]
         IN  IF Truthy(text) /\ IsStr(text)
             THEN [found |-> TRUE, text |-> text.v]
             ELSE IF Truthy(content) /\ IsStr(content)
             THEN [found |-> TRUE, text |-> content.v]
             ELSE IF Truthy(content) /\ inner.found
             THEN inner
             ELSE ScanOutput(output, i + 1)

\* Faulty variant of ExtractOutputText: the output items are scanned first,
\* the top-level text is the fallback.
ExtractOutputTextScansFirst(response) ==
    LET output_text == GetAttr(response, "output_text")
        output == GetAttr(response, "output")
        scanned == IF ~Truthy(output) \/ output.t # "list" THEN <<>>
                   ELSE ScanOutput(output.v, 1).text
    IN  IF scanned # <<>> THEN scanned
        ELSE IF Truthy(output_text) /\ IsStr(output_text) THEN output_text.v
        ELSE <<>>

ExtractOutputText(response) ==
    LET output_text == GetAttr(response, "output_text")
        output == GetAttr(response, "output")
    IN  IF Truthy(output_text) /\ IsStr(output_text) THEN output_text.v
        ELSE IF ~Truthy(output) \/ output.t # "list" THEN <<>>
        ELSE ScanOutput(output.v, 1).text

(***************************************************************************)
(* _build_api_params.  A ParameterSet is a function from the field names   *)
(* it contains to their values; temperature is None_ or PyInt(tenths).     *)
(***************************************************************************)
\* Faulty variant of BuildApiParams: outside the gpt-5 family the limit is
\* carried under another field name.
BuildApiParamsByFamily(model, user_message, system_prompt, max_tokens, temperature, stream) ==
    LET common ==
            [model |-> model,
             input |-> <<[role |-> "user", content |-> user_message]>>,
             store |-> FALSE]
        api_params ==
            IF Len(model) >= 5 /\ SubSeq(model, 1, 5) = <<"g","p","t","-","5">>
            THEN ("max_output_tokens" :> max_tokens) @@ common
            ELSE ("max_tokens" :> max_tokens) @@ common
        p1 == IF stream THEN ("stream" :> TRUE) @@ api_params ELSE api_params
        p2 == IF temperature.t # "None"
              THEN ("temperature" :> temperature.v) @@ p1 ELSE p1
    IN  IF system_prompt # <<>> /\ Strip(system_prompt) # <<>>
        THEN ("instructions" :> system_prompt) @@ p2
        ELSE p2

\* Faulty variant of BuildApiParams: `if temperature:` for
\* `if temperature is not None:`.
BuildApiParamsTruthyTemperature(model, user_message, system_prompt, max_tokens, temperature, stream) ==
    LET api_params ==
            [model |-> model,
             input |-> <<[role |-> "user", content |-> user_message]>>,
             max_output_tokens |-> max_tokens,
             store |-> FALSE]
        p1 == IF stream THEN ("stream" :> TRUE) @@ api_params ELSE api_params
        p2 == IF Truthy(temperature)
              THEN ("temperature" :> temperature.v) @@ p1 ELSE p1
    IN  IF system_prompt # <<>> /\ Strip(system_prompt) # <<>>
        THEN ("instructions" :> system_prompt) @@ p2
        ELSE p2

\* Faulty variant of BuildApiParams: `if system_prompt:` without the strip().
BuildApiParamsNoStrip(model, user_message, system_prompt, max_tokens, temperature, stream) ==
    LET api_params ==
            [model |-> model,
             input |-> <<[role |-> "user", content |-> user_message]>>,
             max_output_tokens |-> max_tokens,
             store |-> FALSE]
        p1 == IF stream THEN ("stream" :> TRUE) @@ api_params ELSE api_params
        p2 == IF temperature.t # "None"
              THEN ("temperature" :> temperature.v) @@ p1 ELSE p1
    IN  IF system_prompt # <<>>
        THEN ("instructions" :> system_prompt) @@ p2
        ELSE p2

BuildApiParams(model, user_message, system_prompt, max_tokens, temperature, stream) ==
    LET api_params ==
            [model |-> model,
             input |-> <<[role |-> "user", content |-> user_message]>>,
             max_output_tokens |-> max_tokens,
             store |-> FALSE]
        p1 == IF stream THEN ("stream" :> TRUE) @@ api_params ELSE api_params
        p2 == IF temperature.t # "None"
              THEN ("temperature" :> temperature.v) @@ p1 ELSE p1
    IN  IF system_prompt # <<>> /\ Strip(system_prompt) # <<>>
        THEN ("instructions" :> system_prompt) @@ p2
        ELSE p2

(***************************************************************************)
(* The failure text of an error event (lines 439-444): str(e) of the       *)
(* RuntimeError the decode loop raises.  str(event) is the event's own     *)
(* rendering, carried by the event as __str__.  Codes and messages are     *)
(* str or None.                                                            *)
(***************************************************************************)
StrOf(x) ==
    IF IsStr(GetAttr(x, "__str__")) THEN GetAttr(x, "__str__").v
    ELSE <<"<","o","b","j","e","c","t",">">>

\* Faulty variant of ErrorEventText: the code is formatted into the text
\* also when it is None.
ErrorEventTextAlwaysCode(event) ==
    LET error_msg == GetAttr(event, "message")
        error_code == GetAttr(event, "code")
    IN  IF Truthy(error_msg)
        THEN (IF error_code.t = "None" THEN <<"N","o","n","e">> ELSE error_code.v)
             \o <<":", " ">> \o error_msg.v
        ELSE StrOf(event)

ErrorEventText(event) ==
    LET error_msg == GetAttr(event, "message")
        error_code == GetAttr(event, "code")
    IN  IF Truthy(error_msg)
        THEN IF Truthy(error_code)
             THEN error_code.v \o <<":", " ">> \o error_msg.v
             ELSE error_msg.v
        ELSE StrOf(event)

(***************************************************************************)
(* Inputs: the arguments of send_message and what the transport answers.   *)
(***************************************************************************)
\* api_key values a client is constructed with.
ApiKeys == { <<>>, <<"s","k">> }

UserMessages == { <<>>, <<" ","\n">>, <<"h","i">> }

SystemPrompts == { <<" ">>, <<"B","e"," ","b","r","i","e","f">> }

Models == { <<"g","p","t","-","5">> }

\* temperature in tenths: 0.0 and 0.7.
Temperatures == { PyInt(0), PyInt(7) }

MaxTokensValues == { 1024 }

Args ==
    [user_message : UserMessages, system_prompt : SystemPrompts,
     model : Models, temperature : Temperatures, max_tokens : MaxTokensValues,
     stream : BOOLEAN, on_chunk : BOOLEAN, cancel_event : BOOLEAN]

\* str(e) of the exceptions the transport raises.
ErrTempUnsupported ==
    <<"U","n","s","u","p","p","o","r","t","e","d"," ","p","a","r","a","m","e","t","e","r",":"," ","'","t","e","m","p","e","r","a","t","u","r","e","'">>

ErrTempInvalidRate ==
    <<"I","n","v","a","l","i","d"," ","t","e","m","p","e","r","a","t","u","r","e",";"," ","R","a","t","e"," ","l","i","m","i","t">>

ErrRateLimit ==
    <<"E","r","r","o","r",":"," ","r","a","t","e","_","l","i","m","i","t","_","e","x","c","e","e","d","e","d"," ","f","o","r"," ","t","h","i","s"," ","m","o","d","e","l">>

ErrTempOnly ==
    <<"t","e","m","p","e","r","a","t","u","r","e"," ","t","o","o"," ","h","i","g","h">>

ErrBoom ==
    <<"B","o","o","m">>

FailureMessages ==
    { ErrTempUnsupported, ErrTempInvalidRate, ErrRateLimit, ErrTempOnly, ErrBoom }

\* Replies of a non-streaming create call.
Replies ==
    { PyObj([output_text |-> PyStr(<<"H","i">>)]),
      PyObj([output_text |-> None_,
             output |-> PyList(<<PyObj([content |-> PyList(<<PyObj([text |-> PyStr(<<"o","k">>)])>>)])>>)]),
      PyObj([output_text |-> PyStr(<<>>), output |-> PyList(<<>>)]) }

TypeDelta ==
    <<"r","e","s","p","o","n","s","e",".","o","u","t","p","u","t","_","t","e","x","t",".","d","e","l","t","a">>

TypeError ==
    <<"e","r","r","o","r">>

TypeCompleted ==
    <<"r","e","s","p","o","n","s","e",".","c","o","m","p","l","e","t","e","d">>

DeltaEvent(delta) == PyObj([type |-> PyStr(TypeDelta), delta |-> delta])

ErrorEvent(code, message) ==
    PyObj([type |-> PyStr(TypeError), code |-> code, message |-> message,
           __str__ |-> PyStr(<<"E","v","e","n","t","(",")">>)])

\* Events a stream yields.
Events ==
    { DeltaEvent(PyStr(<<"a","b">>)),
      DeltaEvent(PyStr(<<"c">>)),
      DeltaEvent(PyStr(<<>>)),
      ErrorEvent(PyStr(<<"r","a","t","e","_","l","i","m","i","t","_","e","x","c","e","e","d","e","d">>),
                 PyStr(ErrTempUnsupported)),
      PyObj([type |-> PyStr(TypeCompleted)]) }

\* What stream.close() does when cancellation is observed.
CloseOutcomes == { "absent", "ok", "raises" }

(***************************************************************************)
(* State.                                                                  *)
(*   api_key      self.api_key of the client                               *)
(*   cancel_flag  the state of the caller's threading.Event                *)
(*   call         one send_message invocation: its arguments, its position *)
(*                (pc), its locals (full_content, result), the             *)
(*                state of the stream iterator (exhausted, raised) and the *)
(*                record of what it did: the responses.create calls with   *)
(*                the ParameterSet and the failure text of each (creates), *)
(*                the events received (events; the last one is the loop    *)
(*                variable event), the on_chunk invocations                *)
(*                (chunks), the stream.close() calls (closes) and the      *)
(*                _localize_error calls (localized).                       *)
(*   quiet        the same invocation, given the same transport answers    *)
(*                and flag readings, with an on_chunk that never raises.   *)
(* An invocation also records the reply of its successful non-streaming    *)
(* create call (reply), the number of cancel_event.is_set() calls          *)
(* (flag_reads) and what getattr(stream, "close") gave when cancellation   *)
(* was observed (stream_close).                                            *)
(*                                                                         *)
(* State of the other specifications of this module:                       *)
(*   probe        the arguments and the result of one application of a     *)
(*                pure function (classifier, request builder)              *)
(*   client       the ChatGPTClient object shared by two invocations       *)
(*   calls        the two invocations running concurrently on client       *)
(*   alone        each of the two invocations run alone, given the same    *)
(*                transport answers and flag readings                      *)
(*   flags        the cancellation event of each of the two invocations    *)
(***************************************************************************)
VARIABLES api_key, cancel_flag, call, quiet, probe, client, calls, alone, flags

vars == <<api_key, cancel_flag, call, quiet, probe, client, calls, alone, flags>>

\* The variables of the single invocation, of the pure-function probe and
\* of the two concurrent invocations.
sendVars == <<api_key, cancel_flag, call, quiet>>

probeVars == <<probe>>

pairVars == <<client, calls, alone, flags>>

\* The invocation before its first statement.
NewCall(args) ==
    [pc |-> "send_message", args |-> args, creates |-> <<>>,
     full_content |-> <<>>, events |-> <<>>,
     exhausted |-> FALSE, raised |-> None_, chunks |-> <<>>,
     closes |-> 0, localized |-> 0, result |-> None_,
     reply |-> None_, flag_reads |-> 0, stream_close |-> "unread"]

\* return <response>
Return(c, response) == [c EXCEPT !.pc = "done", !.result = response]

\* Faulty variant of Handle: the failed response keeps the accumulated text.
HandleKeepsContent(c, message) ==
    Return([c EXCEPT !.localized = @ + 1],
           ChatResponse(FALSE, c.full_content, LocalizeError(message), FALSE))

\* Faulty variant of Handle: the exception leaves send_message.
HandleReraises(c, message) == [c EXCEPT !.pc = "raised"]

\* except Exception as e:
\*     error_message = self._localize_error(str(e))
\*     return ChatResponse(success=False, error=error_message)
Handle(c, message) ==
    Return([c EXCEPT !.localized = @ + 1], Failure(LocalizeError(message)))

\* Faulty variant of Validate: `if not user_message`, without strip().
ValidateNoStrip(c, key) ==
    IF c.args.user_message = <<>>
    THEN Return(c, Failure(MsgEmptyInput))
    ELSE IF key = <<>>
    THEN Return(c, Failure(MsgNoApiKey))
    ELSE [c EXCEPT !.pc = "create"]

\* Faulty variant of Validate: the credential is not checked.
ValidateNoKeyCheck(c, key) ==
    IF Strip(c.args.user_message) = <<>>
    THEN Return(c, Failure(MsgEmptyInput))
    ELSE [c EXCEPT !.pc = "create"]

\* send_message up to the dispatch: the two input checks.
Validate(c, key) ==
    IF Strip(c.args.user_message) = <<>>
    THEN Return(c, Failure(MsgEmptyInput))
    ELSE IF key = <<>>
    THEN Return(c, Failure(MsgNoApiKey))
    ELSE [c EXCEPT !.pc = "create"]

\* Faulty variant of AttemptParams: the retry is built without the system
\* prompt.
AttemptParamsRetryDropsPrompt(c, temperature) ==
    BuildApiParams(c.args.model, c.args.user_message,
                   IF temperature = None_ THEN <<>> ELSE c.args.system_prompt,
                   c.args.max_tokens, temperature, c.args.stream)

\* The ParameterSet of an attempt: with the temperature, or with None.
AttemptParams(c, temperature) ==
    BuildApiParams(c.args.model, c.args.user_message, c.args.system_prompt,
                   c.args.max_tokens, temperature, c.args.stream)

\* responses.create(**params) with what the transport does:
\* outcome = [ok |-> TRUE, reply |-> r] or [ok |-> FALSE, message |-> str(e)].
CallCreate(c, params, outcome) ==
    [c EXCEPT !.creates =
        Append(@, [params |-> params,
                   error |-> IF outcome.ok THEN None_ ELSE PyStr(outcome.message)])]

\* Faulty variant of Created: a reply without text is reported as a failure.
CreatedEmptyIsFailure(c, reply) ==
    IF c.args.stream
    THEN [c EXCEPT !.pc = "next", !.full_content = <<>>]
    ELSE IF ExtractOutputText(reply) = <<>>
    THEN Return([c EXCEPT !.reply = reply], Failure(<<"e","m","p","t","y">>))
    ELSE Return([c EXCEPT !.reply = reply],
                ChatResponse(TRUE, ExtractOutputText(reply), <<>>, FALSE))

\* A create call that returned: the decode loop starts (streaming), or the
\* reply's text is extracted and returned.
Created(c, reply) ==
    IF c.args.stream
    THEN [c EXCEPT !.pc = "next", !.full_content = <<>>]
    ELSE Return([c EXCEPT !.reply = reply],
                ChatResponse(TRUE, ExtractOutputText(reply), <<>>, FALSE))

\* Faulty variant of FirstFailed: every failure is retried.
FirstFailedRetriesAny(c, message) == [c EXCEPT !.pc = "retry"]

\* The first attempt raised: retry without temperature, or re-raise to the
\* handler of the enclosing try.
FirstFailed(c, message) ==
    IF IsTemperatureError(message)
    THEN [c EXCEPT !.pc = "retry"]
    ELSE Handle(c, message)

\* The first attempt, with the temperature.
FirstAttempt(c, outcome) ==
    LET c1 == CallCreate(c, AttemptParams(c, c.args.temperature), outcome)
    IN  IF outcome.ok THEN Created(c1, outcome.reply)
        ELSE FirstFailed(c1, outcome.message)

\* Faulty variant of RetryAttempt: a temperature rejection is negotiated again.
RetryAttemptNegotiatesAgain(c, outcome) ==
    LET c1 == CallCreate(c, AttemptParams(c, None_), outcome)
    IN  IF outcome.ok THEN Created(c1, outcome.reply)
        ELSE FirstFailed(c1, outcome.message)

\* The retry, without the temperature; its failure goes to the handler.
RetryAttempt(c, outcome) ==
    LET c1 == CallCreate(c, AttemptParams(c, None_), outcome)
    IN  IF outcome.ok THEN Created(c1, outcome.reply)
        ELSE Handle(c1, outcome.message)

\* Faulty variant of NextOfStream: a temperature rejection raised by the
\* iterator is negotiated like one raised by the create call.
NextOfStreamNegotiates(c, outcome) ==
    CASE outcome.kind = "event" ->
            [c EXCEPT !.pc = "check", !.events = Append(@, outcome.event)]
      [] outcome.kind = "end" ->
            Return([c EXCEPT !.exhausted = TRUE],
                   ChatResponse(TRUE, c.full_content, <<>>, FALSE))
      [] OTHER ->
            IF IsTemperatureError(outcome.message)
            THEN [c EXCEPT !.pc = "retry", !.raised = PyStr(outcome.message)]
            ELSE Handle([c EXCEPT !.raised = PyStr(outcome.message)], outcome.message)

\* Faulty variant of NextOfStream: the cancellation event is read once more
\* when the stream has ended.
NextOfStreamChecksAtEnd(c, outcome) ==
    CASE outcome.kind = "event" ->
            [c EXCEPT !.pc = "check", !.events = Append(@, outcome.event)]
      [] outcome.kind = "end" ->
            IF c.args.cancel_event /\ cancel_flag
            THEN Return([c EXCEPT !.exhausted = TRUE, !.flag_reads = @ + 1],
                        ChatResponse(TRUE, c.full_content, <<>>, TRUE))
            ELSE Return([c EXCEPT !.exhausted = TRUE],
                        ChatResponse(TRUE, c.full_content, <<>>, FALSE))
      [] OTHER ->
            Handle([c EXCEPT !.raised = PyStr(outcome.message)], outcome.message)

\* `for event in stream`: the iterator yields an event, ends, or raises.
NextOfStream(c, outcome) ==
    CASE outcome.kind = "event" ->
            [c EXCEPT !.pc = "check", !.events = Append(@, outcome.event)]
      [] outcome.kind = "end" ->
            Return([c EXCEPT !.exhausted = TRUE],
                   ChatResponse(TRUE, c.full_content, <<>>, FALSE))
      [] OTHER ->
            Handle([c EXCEPT !.raised = PyStr(outcome.message)], outcome.message)

\* Faulty variant of CheckCancelled: the event is read before the loop, for
\* the first event only.
CheckCancelledBeforeLoop(c, flag, close) ==
    IF Len(c.events) > 1
    THEN [c EXCEPT !.pc = "event"]
    ELSE IF c.args.cancel_event /\ flag
    THEN Return([c EXCEPT !.flag_reads = @ + 1, !.stream_close = close,
                          !.closes = IF close = "absent" THEN @ ELSE @ + 1],
                ChatResponse(TRUE, c.full_content, <<>>, TRUE))
    ELSE [c EXCEPT !.pc = "event",
                   !.flag_reads = IF c.args.cancel_event THEN @ + 1 ELSE @]

\* Faulty variant of CheckCancelled: no try/except around the close of the
\* stream, so a close() that raises reaches the handler of _stream_response.
CheckCancelledCloseUnguarded(c, flag, close) ==
    IF c.args.cancel_event /\ flag
    THEN LET closed == [c EXCEPT !.flag_reads = @ + 1, !.stream_close = close,
                                 !.closes = IF close = "absent" THEN @ ELSE @ + 1]
         IN  IF close = "raises"
             THEN Handle(closed, <<"c","l","o","s","e">>)
             ELSE Return(closed, ChatResponse(TRUE, c.full_content, <<>>, TRUE))
    ELSE [c EXCEPT !.pc = "event",
                   !.flag_reads = IF c.args.cancel_event THEN @ + 1 ELSE @]

\* Faulty variant of CheckCancelled: the cancelled response drops the text.
CheckCancelledDropsContent(c, flag, close) ==
    IF c.args.cancel_event /\ flag
    THEN Return([c EXCEPT !.flag_reads = @ + 1, !.stream_close = close,
                          !.closes = IF close = "absent" THEN @ ELSE @ + 1],
                ChatResponse(TRUE, <<>>, <<>>, TRUE))
    ELSE [c EXCEPT !.pc = "event",
                   !.flag_reads = IF c.args.cancel_event THEN @ + 1 ELSE @]

\* Faulty variant of CheckCancelled: an observed cancellation skips the event
\* and the loop goes on.
CheckCancelledSkipsEvent(c, flag, close) ==
    IF c.args.cancel_event /\ flag
    THEN [c EXCEPT !.pc = "next", !.flag_reads = @ + 1]
    ELSE [c EXCEPT !.pc = "event",
                   !.flag_reads = IF c.args.cancel_event THEN @ + 1 ELSE @]

\* The cancellation check at the head of the loop body; flag is
\* cancel_event.is_set() (called only when an event object was given),
\* close is what the stream offers as close(): nothing, a function that
\* returns, or one that raises.
CheckCancelled(c, flag, close) ==
    IF c.args.cancel_event /\ flag
    THEN Return([c EXCEPT !.flag_reads = @ + 1, !.stream_close = close,
                          !.closes = IF close = "absent" THEN @ ELSE @ + 1],
                ChatResponse(TRUE, c.full_content, <<>>, TRUE))
    ELSE [c EXCEPT !.pc = "event",
                   !.flag_reads = IF c.args.cancel_event THEN @ + 1 ELSE @]

\* Faulty variant of CallOnChunk: no try/except around the callback.
CallOnChunkUnguarded(c, delta, raises) ==
    IF raises
    THEN Handle([c EXCEPT !.chunks = Append(@, [delta |-> delta, raised |-> raises])],
                <<"c","a","l","l","b","a","c","k">>)
    ELSE [c EXCEPT !.chunks = Append(@, [delta |-> delta, raised |-> raises])]

\* try: on_chunk(delta) / except Exception: pass
CallOnChunk(c, delta, raises) ==
    [c EXCEPT !.chunks = Append(@, [delta |-> delta, raised |-> raises])]

\* Faulty variant of ProcessEvent: the callback gets the cumulative buffer.
ProcessEventCumulative(c, raises) ==
    LET event == c.events[Len(c.events)]
        event_type == GetAttr(event, "type")
        delta == ExtractDeltaText(event)
        appended == [c EXCEPT !.full_content = @ \o delta, !.pc = "next"]
    IN  IF event_type = PyStr(TypeDelta)
        THEN IF delta # <<>>
             THEN IF c.args.on_chunk
                  THEN CallOnChunk(appended, appended.full_content, raises)
                  ELSE appended
             ELSE [c EXCEPT !.pc = "next"]
        ELSE IF event_type = PyStr(TypeError)
        THEN Handle(c, ErrorEventText(event))
        ELSE [c EXCEPT !.pc = "next"]

\* Faulty variant of ProcessEvent: an error event is ignored like any other.
ProcessEventSkipsError(c, raises) ==
    LET event == c.events[Len(c.events)]
        event_type == GetAttr(event, "type")
        delta == ExtractDeltaText(event)
        appended == [c EXCEPT !.full_content = @ \o delta, !.pc = "next"]
    IN  IF event_type = PyStr(TypeDelta)
        THEN IF delta # <<>>
             THEN IF c.args.on_chunk
                  THEN CallOnChunk(appended, delta, raises)
                  ELSE appended
             ELSE [c EXCEPT !.pc = "next"]
        ELSE [c EXCEPT !.pc = "next"]

\* Faulty variant of ProcessEvent: the delta of an event is appended
\* whatever the type of the event.
ProcessEventAnyDelta(c, raises) ==
    LET event == c.events[Len(c.events)]
        event_type == GetAttr(event, "type")
        delta == ExtractDeltaText(event)
        appended == [c EXCEPT !.full_content = @ \o delta, !.pc = "next"]
    IN  IF event_type = PyStr(TypeError)
        THEN Handle(c, ErrorEventText(event))
        ELSE IF delta # <<>>
        THEN IF c.args.on_chunk
             THEN CallOnChunk(appended, delta, raises)
             ELSE appended
        ELSE [c EXCEPT !.pc = "next"]

\* Faulty variant of ProcessEvent: the text is appended after the callback,
\* inside its try, so that a callback that raises loses the increment.
ProcessEventAppendsInTry(c, raises) ==
    LET event == c.events[Len(c.events)]
        event_type == GetAttr(event, "type")
        delta == ExtractDeltaText(event)
        appended == [c EXCEPT !.full_content = @ \o delta, !.pc = "next"]
    IN  IF event_type = PyStr(TypeDelta)
        THEN IF delta # <<>>
             THEN IF c.args.on_chunk
                  THEN CallOnChunk(IF raises THEN [c EXCEPT !.pc = "next"] ELSE appended,
                                   delta, raises)
                  ELSE appended
             ELSE [c EXCEPT !.pc = "next"]
        ELSE IF event_type = PyStr(TypeError)
        THEN Handle(c, ErrorEventText(event))
        ELSE [c EXCEPT !.pc = "next"]

\* The rest of the loop body: the event by its type.
ProcessEvent(c, raises) ==
    LET event == c.events[Len(c.events)]
        event_type == GetAttr(event, "type")
        delta == ExtractDeltaText(event)
        appended == [c EXCEPT !.full_content = @ \o delta, !.pc = "next"]
    IN  IF event_type = PyStr(TypeDelta)
        THEN IF delta # <<>>
             THEN IF c.args.on_chunk
                  THEN CallOnChunk(appended, delta, raises)
                  ELSE appended
             ELSE [c EXCEPT !.pc = "next"]
        ELSE IF event_type = PyStr(TypeError)
        THEN Handle(c, ErrorEventText(event))
        ELSE [c EXCEPT !.pc = "next"]

(***************************************************************************)
(* Actions.  Each moves the invocation by one step; quiet takes the same   *)
(* step while it is at the same position.                                  *)
(***************************************************************************)
Init ==
    /\ api_key \in ApiKeys
    /\ cancel_flag = FALSE
    /\ call \in {NewCall(a) : a \in Args}
    /\ quiet = call
    /\ probe = None_
    /\ client = None_
    /\ calls = <<>>
    /\ alone = <<>>
    /\ flags = <<>>

\* send_message, lines 204-217.
SendMessage ==
    /\ call.pc = "send_message"
    /\ call' = Validate(call, api_key)
    /\ quiet' = IF quiet.pc = "send_message" THEN Validate(quiet, api_key) ELSE quiet
    /\ UNCHANGED <<api_key, cancel_flag, probeVars, pairVars>>

CreateOutcomes(c) ==
    (IF c.args.stream THEN {[ok |-> TRUE, reply |-> None_]}
     ELSE {[ok |-> TRUE, reply |-> r] : r \in Replies})
    \cup {[ok |-> FALSE, message |-> m] : m \in FailureMessages}

\* self.client.responses.create(**api_params)
Create ==
    /\ call.pc = "create"
    /\ \E outcome \in CreateOutcomes(call) :
          /\ call' = FirstAttempt(call, outcome)
          /\ quiet' = IF quiet.pc = "create" THEN FirstAttempt(quiet, outcome) ELSE quiet
    /\ UNCHANGED <<api_key, cancel_flag, probeVars, pairVars>>

\* self.client.responses.create(**api_params_no_temp)
Retry ==
    /\ call.pc = "retry"
    /\ \E outcome \in CreateOutcomes(call) :
          /\ call' = RetryAttempt(call, outcome)
          /\ quiet' = IF quiet.pc = "retry" THEN RetryAttempt(quiet, outcome) ELSE quiet
    /\ UNCHANGED <<api_key, cancel_flag, probeVars, pairVars>>

\* str(e) of an exception raised while the stream is iterated.
StreamFailureMessages == { ErrRateLimit, ErrTempUnsupported }

StreamOutcomes(c) ==
    (IF Len(c.events) < MaxEvents
     THEN {[kind |-> "event", event |-> e] : e \in Events} ELSE {})
    \cup {[kind |-> "end"]}
    \cup {[kind |-> "raise", message |-> m] : m \in StreamFailureMessages}

\* for event in stream
NextEvent ==
    /\ call.pc = "next"
    /\ \E outcome \in StreamOutcomes(call) :
          /\ call' = NextOfStream(call, outcome)
          /\ quiet' = IF quiet.pc = "next" THEN NextOfStream(quiet, outcome) ELSE quiet
    /\ UNCHANGED <<api_key, cancel_flag, probeVars, pairVars>>

\* if cancel_event and cancel_event.is_set(): ... return
CheckCancel ==
    /\ call.pc = "check"
    /\ \E close \in CloseOutcomes :
          /\ call' = CheckCancelled(call, cancel_flag, close)
          /\ quiet' = IF quiet.pc = "check"
                      THEN CheckCancelled(quiet, cancel_flag, close) ELSE quiet
    /\ UNCHANGED <<api_key, cancel_flag, probeVars, pairVars>>

\* The event by its type; the callback raises or returns.
Process ==
    /\ call.pc = "event"
    /\ \E raises \in BOOLEAN : call' = ProcessEvent(call, raises)
    /\ quiet' = IF quiet.pc = "event" THEN ProcessEvent(quiet, FALSE) ELSE quiet
    /\ UNCHANGED <<api_key, cancel_flag, probeVars, pairVars>>

\* The caller sets the cancellation event while the call runs.
Cancel ==
    /\ call.args.cancel_event
    /\ call.pc # "done"
    /\ ~cancel_flag
    /\ cancel_flag' = TRUE
    /\ UNCHANGED <<api_key, call, quiet, probeVars, pairVars>>

Next ==
    \/ SendMessage
    \/ Create
    \/ Retry
    \/ NextEvent
    \/ CheckCancel
    \/ Process
    \/ Cancel

Spec == Init /\ [][Next]_vars

(***************************************************************************)
(* The classifier on its own: _localize_error applied to one raw error     *)
(* text, and the handler that returns its result.                          *)
(***************************************************************************)
\* The substrings the rules of _localize_error look for.
Markers ==
    { <<"i","n","v","a","l","i","d","_","a","p","i","_","k","e","y">>,
      <<"i","n","v","a","l","i","d"," ","a","p","i"," ","k","e","y">>,
      <<"r","a","t","e","_","l","i","m","i","t">>,
      <<"r","a","t","e"," ","l","i","m","i","t">>,
      <<"i","n","s","u","f","f","i","c","i","e","n","t","_","q","u","o","t","a">>,
      <<"i","n","s","u","f","f","i","c","i","e","n","t"," ","q","u","o","t","a">>,
      <<"c","o","n","n","e","c","t","i","o","n">>,
      <<"m","o","d","e","l","_","n","o","t","_","f","o","u","n","d">>,
      <<"m","o","d","e","l"," ","n","o","t"," ","f","o","u","n","d">>,
      <<"c","o","n","t","e","x","t","_","l","e","n","g","t","h">>,
      <<"m","a","x","i","m","u","m"," ","c","o","n","t","e","x","t">>,
      <<"m","a","x","_","t","o","k","e","n","s">>,
      <<"m","a","x","_","o","u","t","p","u","t","_","t","o","k","e","n","s">> }

\* The upper-case letter of a lower-case ASCII letter.
UpperChar(ch) ==
    IF \E u \in DOMAIN LowerOf : LowerOf[u] = ch
    THEN CHOOSE u \in DOMAIN LowerOf : LowerOf[u] = ch
    ELSE ch

RECURSIVE Upper(_)
\* A text in upper case.
Upper(s) == IF s = <<>> THEN <<>> ELSE <<UpperChar(Head(s))>> \o Upper(Tail(s))

\* A text with its first letter in upper case.
Capitalized(s) == IF s = <<>> THEN <<>> ELSE <<UpperChar(Head(s))>> \o Tail(s)

\* A marker as written, in upper case and capitalized.
Spellings(mk) == { mk, Upper(mk), Capitalized(mk) }

\* Text before and after a marker.
Prefixes == { <<>>, <<"E","r","r","o","r",":"," ">> }

Suffixes == { <<>>, <<" ","f","o","r"," ","t","h","i","s"," ","m","o","d","e","l">> }

\* Texts that match no rule, some of them close to a marker.
Unmatched ==
    { <<>>, ErrBoom, ErrTempOnly, ErrTempUnsupported,
      <<"I","n","v","a","l","i","d"," ","k","e","y">>,
      <<"R","a","t","e","-","l","i","m","i","t"," ","E","x","c","e","e","d","e","d">>,
      <<"M","a","x"," ","t","o","k","e","n","s">>,
      <<"M","o","d","e","l"," ","N","o","t","_","F","o","u","n","d">> }

\* str(e) of the exceptions given to the classifier: one marker in some
\* spelling inside some text, two markers in either order, or no marker.
RawErrors ==
    { pre \o sp \o suf : pre \in Prefixes, suf \in Suffixes,
                         sp \in UNION {Spellings(mk) : mk \in Markers} }
    \cup { m1 \o <<";"," ">> \o Capitalized(m2) : m1 \in Markers, m2 \in Markers }
    \cup Unmatched

\* The invocations whose handler is probed: one per response mode.
HandlerArgs ==
    { a \in Args : /\ a.user_message = <<"h","i">>
                   /\ a.system_prompt = <<" ">>
                   /\ a.temperature = PyInt(0)
                   /\ a.on_chunk /\ ~a.cancel_event }

InitClassifier ==
    /\ probe \in [pc : {"raised"}, error_message : RawErrors, args : HandlerArgs,
                   localized : {None_}, response : {None_}]
    /\ api_key = <<>>
    /\ cancel_flag = FALSE
    /\ call = None_
    /\ quiet = None_
    /\ client = None_
    /\ calls = <<>>
    /\ alone = <<>>
    /\ flags = <<>>

\* error_message = self._localize_error(str(e))
Localize ==
    /\ probe.pc = "raised"
    /\ probe' = [probe EXCEPT !.pc = "localized",
                              !.localized = PyStr(LocalizeError(probe.error_message))]
    /\ UNCHANGED <<sendVars, pairVars>>

\* The except clause as a whole, in an invocation with these arguments.
Respond ==
    /\ probe.pc = "localized"
    /\ probe' = [probe EXCEPT !.pc = "returned",
                              !.response = Handle(NewCall(probe.args),
                                                  probe.error_message).result]
    /\ UNCHANGED <<sendVars, pairVars>>

NextClassifier ==
    \/ Localize
    \/ Respond

SpecClassifier == InitClassifier /\ [][NextClassifier]_vars

(***************************************************************************)
(* The request builder on its own: _build_api_params applied to the        *)
(* arguments of one invocation, as its first attempt and its retry do.     *)
(***************************************************************************)
\* Model identifiers of several families.
BuilderModels ==
    { <<"g","p","t","-","5">>,
      <<"g","p","t","-","5","-","m","i","n","i">>,
      <<"g","p","t","-","4","o">>,
      <<"g","p","t","-","3",".","5","-","t","u","r","b","o">>,
      <<"o","1","-","m","i","n","i">>,
      <<"d","a","v","i","n","c","i","-","0","0","2">> }

\* System prompts: empty, whitespace only, text, text inside whitespace.
BuilderPrompts ==
    { <<>>, <<" ">>, <<" ","\n","\t">>,
      <<"B","e"," ","b","r","i","e","f">>,
      <<" ","B","e"," ","b","r","i","e","f"," ">> }

\* temperature: None, 0.0 and 0.7 (in tenths).
BuilderTemperatures == { None_, PyInt(0), PyInt(7) }

BuilderMaxTokens == { 1, 1024 }

BuilderArgs ==
    [user_message : {<<"h","i">>}, system_prompt : BuilderPrompts,
     model : BuilderModels, temperature : BuilderTemperatures,
     max_tokens : BuilderMaxTokens,
     stream : BOOLEAN, on_chunk : {FALSE}, cancel_event : {FALSE}]

InitBuilder ==
    /\ probe \in [pc : {"args"}, args : BuilderArgs,
                   first : {None_}, retry : {None_}]
    /\ api_key = <<>>
    /\ cancel_flag = FALSE
    /\ call = None_
    /\ quiet = None_
    /\ client = None_
    /\ calls = <<>>
    /\ alone = <<>>
    /\ flags = <<>>

\* The ParameterSet of the first attempt (lines 308-315, 376-383).
BuildFirst ==
    /\ probe.pc = "args"
    /\ probe' = [probe EXCEPT
                    !.pc = "first",
                    !.first = AttemptParams(NewCall(probe.args), probe.args.temperature)]
    /\ UNCHANGED <<sendVars, pairVars>>

\* The ParameterSet of the retry (lines 322-329, 390-397).
BuildRetry ==
    /\ probe.pc = "first"
    /\ probe' = [probe EXCEPT
                    !.pc = "retry",
                    !.retry = AttemptParams(NewCall(probe.args), None_)]
    /\ UNCHANGED <<sendVars, pairVars>>

NextBuilder ==
    \/ BuildFirst
    \/ BuildRetry

SpecBuilder == InitBuilder /\ [][NextBuilder]_vars

(***************************************************************************)
(* Two invocations of send_message running concurrently on one client.     *)
(* Each step of an invocation is a step of the single invocation above,    *)
(* taken on its own record; the client object is what the two share.       *)
(***************************************************************************)
\* The most events a stream yields to one of two concurrent invocations.
MaxConcurrentEvents == 2

Invocations == {1, 2}

\* The next step of one invocation, by its position: key is self.api_key,
\* flag is cancel_event.is_set(), x is what the transport, the stream's
\* close and the callback do at this step.
StepOfCall(c, key, flag, x) ==
    CASE c.pc = "send_message" -> Validate(c, key)
      [] c.pc = "create"       -> FirstAttempt(c, x.outcome)
      [] c.pc = "retry"        -> RetryAttempt(c, x.outcome)
      [] c.pc = "next"         -> NextOfStream(c, x.outcome)
      [] c.pc = "check"        -> CheckCancelled(c, flag, x.close)
      [] OTHER                 -> ProcessEvent(c, x.raises)

\* Faulty variant of ClientStep: the accumulated text is kept in an
\* attribute of the client (self.full_content), not in a local variable.
ClientStepSharedBuffer(cl, c, flag, x) ==
    LET shared == IF "full_content" \in DOMAIN cl.v
                  THEN cl.v["full_content"] ELSE <<>>
        next == StepOfCall([c EXCEPT !.full_content = shared],
                           GetAttr(cl, "api_key").v, flag, x)
    IN  [client |-> PyObj(("full_content" :> next.full_content) @@ cl.v),
         call |-> next]

\* A step of an invocation on the client cl: what it leaves of the client
\* and of its own record.  send_message and the methods it calls read
\* self.api_key and self.client and assign no attribute of self.
ClientStep(cl, c, flag, x) ==
    [client |-> cl, call |-> StepOfCall(c, GetAttr(cl, "api_key").v, flag, x)]

\* The arguments of the concurrent invocations: streaming with a
\* cancellation event, or non-streaming.
ConcurrentArgs ==
    { a \in Args : /\ a.user_message = <<"h","i">>
                   /\ a.system_prompt = <<" ">>
                   /\ a.temperature = PyInt(7)
                   /\ a.on_chunk
                   /\ a.cancel_event = a.stream }

\* What the transport does at a step of c.
ConcurrentOutcomes(c) ==
    CASE c.pc \in {"create", "retry"} ->
            {[ok |-> TRUE,
              reply |-> IF c.args.stream THEN None_
                        ELSE PyObj([output_text |-> PyStr(<<"H","i">>)])]}
            \cup {[ok |-> FALSE, message |-> m] : m \in {ErrTempUnsupported, ErrBoom}}
      [] c.pc = "next" ->
            (IF Len(c.events) < MaxConcurrentEvents
             THEN {[kind |-> "event", event |-> DeltaEvent(PyStr(d))] :
                      d \in {<<"a","b">>, <<"c">>}}
             ELSE {})
            \cup {[kind |-> "end"]}
      [] OTHER -> {[kind |-> "none"]}

\* What the transport, the stream's close and the callback do at a step of
\* c; the callback of a concurrent invocation returns.
ConcurrentInputs(c) ==
    [outcome : ConcurrentOutcomes(c),
     close : IF c.pc = "check" THEN {"ok", "raises"} ELSE {"ok"},
     raises : {FALSE}]

InitConcurrent ==
    /\ client \in {PyObj([api_key |-> PyStr(k)]) : k \in ApiKeys}
    /\ calls \in [Invocations -> {NewCall(a) : a \in ConcurrentArgs}]
    /\ alone = [i \in Invocations |-> [client |-> client, call |-> calls[i]]]
    /\ flags = [i \in Invocations |-> FALSE]
    /\ api_key = <<>>
    /\ cancel_flag = FALSE
    /\ call = None_
    /\ quiet = None_
    /\ probe = None_

\* Invocation i takes its next step on the shared client; the same
\* invocation alone takes it on a client of its own.
Run(i) ==
    /\ calls[i].pc # "done"
    /\ \E x \in ConcurrentInputs(calls[i]) :
          LET step == ClientStep(client, calls[i], flags[i], x)
          IN  /\ client' = step.client
              /\ calls' = [calls EXCEPT ![i] = step.call]
              /\ alone' = [alone EXCEPT
                              ![i] = ClientStep(alone[i].client, alone[i].call,
                                                flags[i], x)]
    /\ UNCHANGED <<flags, sendVars, probeVars>>

\* The caller of invocation i sets its cancellation event.
CancelOne(i) ==
    /\ calls[i].args.cancel_event
    /\ calls[i].pc # "done"
    /\ ~flags[i]
    /\ flags' = [flags EXCEPT ![i] = TRUE]
    /\ UNCHANGED <<client, calls, alone, sendVars, probeVars>>

NextConcurrent ==
    \/ \E i \in Invocations : Run(i)
    \/ \E i \in Invocations : CancelOne(i)

SpecConcurrent == InitConcurrent /\ [][NextConcurrent]_vars

(***************************************************************************)
(* The response extractor on its own: _extract_output_text applied to one  *)
(* reply.  A reply has at most two output items, an item's content list at *)
(* most two elements.                                                      *)
(***************************************************************************)
\* Elements of a content list: objects with a text attribute, dicts with a
\* "text" key (a string, the empty string, not a string) or without one.
ExtractorElements ==
    { PyObj([text |-> PyStr(<<"a">>)]),
      PyObj([text |-> PyStr(<<>>)]),
      PyDict([text |-> PyStr(<<"k">>)]),
      PyDict([text |-> PyStr(<<>>)]),
      PyDict([text |-> PyInt(3)]),
      PyDict([other |-> PyStr(<<"z">>)]) }

ExtractorContentLists ==
    {<<>>} \cup {<<a>> : a \in ExtractorElements}
           \cup {<<a, b>> : a \in ExtractorElements, b \in ExtractorElements}

\* Output items: with a text, with a content that is a string, a number or
\* a list, with both, with neither.
ExtractorItems ==
    { PyObj([text |-> PyStr(<<"T">>)]),
      PyObj([text |-> PyStr(<<>>)]),
      PyObj([id |-> PyStr(<<"i">>)]),
      PyObj([content |-> PyStr(<<"C">>)]),
      PyObj([content |-> PyStr(<<>>)]),
      PyObj([content |-> PyInt(5)]),
      PyObj([text |-> PyStr(<<>>), content |-> PyStr(<<"D">>)]),
      PyObj([text |-> PyStr(<<"U">>), content |-> PyStr(<<"E">>)]) }
    \cup {PyObj([content |-> PyList(cl)]) : cl \in ExtractorContentLists}

\* The output attribute: absent, not a list, a list of items.
ExtractorOutputs ==
    { None_, PyStr(<<"x">>), PyList(<<>>) }
    \cup {PyList(<<i>>) : i \in ExtractorItems}
    \cup {PyList(<<i, j>>) : i \in ExtractorItems, j \in ExtractorItems}

\* The output_text attribute: absent, empty, a text, not a string.
ExtractorTopTexts == { None_, PyStr(<<>>), PyStr(<<"H","i">>), PyInt(5) }

ExtractorReplies ==
    {PyObj([output_text |-> t, output |-> o]) :
        t \in ExtractorTopTexts, o \in ExtractorOutputs}

InitExtractor ==
    /\ probe \in [pc : {"reply"}, response : ExtractorReplies, content : {None_}]
    /\ api_key = <<>>
    /\ cancel_flag = FALSE
    /\ call = None_
    /\ quiet = None_
    /\ client = None_
    /\ calls = <<>>
    /\ alone = <<>>
    /\ flags = <<>>

\* content = self._extract_output_text(response)
Extract ==
    /\ probe.pc = "reply"
    /\ probe' = [probe EXCEPT !.pc = "extracted",
                              !.content = PyStr(ExtractOutputText(probe.response))]
    /\ UNCHANGED <<sendVars, pairVars>>

NextExtractor == Extract

SpecExtractor == InitExtractor /\ [][NextExtractor]_vars

(***************************************************************************)
(* The decode loop on its own: a streaming invocation without cancellation *)
(* event whose stream yields events of every shape (full), and the same    *)
(* invocation on the same stream without its events of other types (bare). *)
(***************************************************************************)
\* The most events the stream yields.
MaxDecoderEvents == 2

\* The delta attribute of a delta event: absent, a string, a dict with a
\* "text" key, a "content" key, both or neither, something else.
DeltaPayloads ==
    { None_, PyStr(<<"a","b">>), PyStr(<<>>),
      PyDict([text |-> PyStr(<<"t">>)]),
      PyDict([text |-> PyStr(<<"t">>), content |-> PyStr(<<"c">>)]),
      PyDict([text |-> PyInt(5), content |-> PyStr(<<"c">>)]),
      PyDict([content |-> PyStr(<<"c">>)]),
      PyDict([content |-> PyInt(5)]),
      PyDict([other |-> PyStr(<<"o">>)]),
      PyInt(5),
      PyList(<<PyStr(<<"a">>)>>) }

\* The code and the message of an error event: absent, empty, a text.
ErrorCodes == { None_, PyStr(<<>>), PyStr(<<"E","4","2">>) }

ErrorMessages == { None_, PyStr(<<>>), PyStr(ErrBoom), PyStr(ErrRateLimit) }

\* Events of a type that is neither delta nor error: another type, another
\* type with a delta attribute, no type attribute.
OtherEvents ==
    { PyObj([type |-> PyStr(TypeCompleted)]),
      PyObj([type |-> PyStr(TypeCompleted), delta |-> PyStr(<<"z","z">>)]),
      PyObj([id |-> PyStr(<<"i">>)]) }

DecoderEvents ==
    {DeltaEvent(d) : d \in DeltaPayloads}
    \cup {ErrorEvent(code, message) : code \in ErrorCodes, message \in ErrorMessages}
    \cup OtherEvents

\* The event's type is neither the delta type nor the error type.
OtherKind(event) ==
    GetAttr(event, "type") \notin {PyStr(TypeDelta), PyStr(TypeError)}

\* Streaming invocations without cancellation event, with and without
\* callback.
DecoderArgs ==
    { a \in Args : /\ a.user_message = <<"h","i">>
                   /\ a.system_prompt = <<" ">>
                   /\ a.temperature = PyInt(0)
                   /\ a.stream /\ ~a.cancel_event }

\* The invocation when its create call has returned the stream.
Streaming(args) ==
    FirstAttempt(Validate(NewCall(args), <<"s","k">>), [ok |-> TRUE, reply |-> None_])

\* One iteration of `for event in stream` with the event yielded: the
\* cancellation check (no event object) and the event by its type.
DecodeEvent(c, event, raises) ==
    LET received == NextOfStream(c, [kind |-> "event", event |-> event])
        checked == CheckCancelled(received, FALSE, "absent")
    IN  IF checked.pc = "event" THEN ProcessEvent(checked, raises) ELSE checked

InitDecoder ==
    /\ probe \in {[full |-> Streaming(a), bare |-> Streaming(a)] : a \in DecoderArgs}
    /\ api_key = <<"s","k">>
    /\ cancel_flag = FALSE
    /\ call = None_
    /\ quiet = None_
    /\ client = None_
    /\ calls = <<>>
    /\ alone = <<>>
    /\ flags = <<>>

\* The stream yields an event; bare gets it unless it is of another type.
Receive ==
    /\ probe.full.pc = "next"
    /\ Len(probe.full.events) < MaxDecoderEvents
    /\ \E event \in DecoderEvents, raises \in BOOLEAN :
          probe' = [full |-> DecodeEvent(probe.full, event, raises),
                    bare |-> IF OtherKind(event) \/ probe.bare.pc # "next"
                             THEN probe.bare
                             ELSE DecodeEvent(probe.bare, event, raises)]
    /\ UNCHANGED <<sendVars, pairVars>>

\* The stream ends, or raises while it is iterated.
Finish ==
    /\ probe.full.pc = "next"
    /\ \E outcome \in {[kind |-> "end"]}
                       \cup {[kind |-> "raise", message |-> m] :
                                m \in StreamFailureMessages} :
          probe' = [full |-> NextOfStream(probe.full, outcome),
                    bare |-> IF probe.bare.pc = "next"
                             THEN NextOfStream(probe.bare, outcome)
                             ELSE probe.bare]
    /\ UNCHANGED <<sendVars, pairVars>>

NextDecoder ==
    \/ Receive
    \/ Finish

SpecDecoder == InitDecoder /\ [][NextDecoder]_vars

(***************************************************************************)
(* fetch_available_models: the listing of the account's models, filtered   *)
(* and sorted.                                                             *)
(***************************************************************************)
\* The most entries of a listing.
MaxListed == 3

\* s.startswith(prefix)
StartsWith(prefix, s) ==
    Len(prefix) <= Len(s) /\ SubSeq(s, 1, Len(prefix)) = prefix

\* The characters of model ids in the order of their code points.
CodePointOrder ==
    <<"-",".","0","1","2","3","4","5","6","7","8","9","a","b","c","d","e","f","g","h","i","j","k","l","m","n","o","p","q","r","s","t","u","v","w","x","y","z">>

CharRank(ch) == CHOOSE i \in 1..Len(CodePointOrder) : CodePointOrder[i] = ch

RECURSIVE StrLess(_, _)
\* a < b of two Python strings.
StrLess(a, b) ==
    IF b = <<>> THEN FALSE
    ELSE IF a = <<>> THEN TRUE
    ELSE IF Head(a) = Head(b) THEN StrLess(Tail(a), Tail(b))
    ELSE CharRank(Head(a)) < CharRank(Head(b))

\* The prefixes of the ids that are kept.
KeptPrefixes == { <<"g","p","t","-">>, <<"o","1","-">>, <<"o","3","-">> }

priority_order ==
    << <<"g","p","t","-","5">>, <<"g","p","t","-","4","o">>, <<"g","p","t","-","4">>, <<"o","1","-">>, <<"o","3","-">>, <<"g","p","t","-","3",".","5">> >>

RECURSIVE FirstPrefix(_, _, _)
\* The index (from 0) of the first prefix of the table, from index i on,
\* that model_name starts with; the length of the table when there is none.
FirstPrefix(prefixes, model_name, i) ==
    IF i >= Len(prefixes) THEN Len(prefixes)
    ELSE IF StartsWith(prefixes[i + 1], model_name) THEN i
    ELSE FirstPrefix(prefixes, model_name, i + 1)

\* Faulty variant of sort_key: 'gpt-4' stands before 'gpt-4o' in the table.
sort_keyShadowed(model_name) ==
    << FirstPrefix(<< <<"g","p","t","-","5">>, <<"g","p","t","-","4">>, <<"g","p","t","-","4","o">>, <<"o","1","-">>, <<"o","3","-">>, <<"g","p","t","-","3",".","5">> >>,
                   model_name, 0),
       model_name >>

sort_key(model_name) ==
    << FirstPrefix(priority_order, model_name, 0), model_name >>

\* k1 < k2 of two keys (tuples of an int and a string).
KeyLess(k1, k2) ==
    \/ k1[1] < k2[1]
    \/ k1[1] = k2[1] /\ StrLess(k1[2], k2[2])

RECURSIVE InsertByKey(_, _)
\* model_name put into a sorted list, after the entries that are not greater.
InsertByKey(model_name, sorted) ==
    IF sorted = <<>> THEN <<model_name>>
    ELSE IF KeyLess(sort_key(model_name), sort_key(Head(sorted)))
    THEN <<model_name>> \o sorted
    ELSE <<Head(sorted)>> \o InsertByKey(model_name, Tail(sorted))

RECURSIVE SortByKey(_)
\* models.sort(key=sort_key), a stable sort.
SortByKey(models) ==
    IF models = <<>> THEN <<>>
    ELSE InsertByKey(models[Len(models)],
                     SortByKey(SubSeq(models, 1, Len(models) - 1)))

RECURSIVE KeptIds(_)
\* The loop over models_response.data: the ids that are truthy and start
\* with a kept prefix, in the order of the listing.
KeptIds(data) ==
    IF data = <<>> THEN <<>>
    ELSE LET model_id == GetAttr(Head(data), "id")
         IN  (IF Truthy(model_id) /\ \E prefix \in KeptPrefixes :
                                        StartsWith(prefix, model_id.v)
              THEN <<model_id.v>> ELSE <<>>)
             \o KeptIds(Tail(data))

\* The list of Python strings of a sequence of texts.
StrList(texts) == PyList([i \in 1..Len(texts) |-> PyStr(texts[i])])

\* Faulty variant of fetch_available_models: an empty list is returned as
\* it is.
FetchAvailableModelsEmptyList(key, outcome) ==
    IF key = <<>> THEN [models |-> None_, listed |-> FALSE]
    ELSE IF ~outcome.ok THEN [models |-> None_, listed |-> TRUE]
    ELSE [models |-> StrList(SortByKey(KeptIds(outcome.data))), listed |-> TRUE]

\* fetch_available_models(api_key) when the listing call, if it is made, has
\* the given outcome: the returned value, and whether the call was made.
FetchAvailableModels(key, outcome) ==
    IF key = <<>> THEN [models |-> None_, listed |-> FALSE]
    ELSE IF ~outcome.ok THEN [models |-> None_, listed |-> TRUE]
    ELSE LET models == SortByKey(KeptIds(outcome.data))
         IN  [models |-> IF models # <<>> THEN StrList(models) ELSE None_,
              listed |-> TRUE]

CatalogKeys == { <<>>, <<" ">>, <<"s","k">> }

\* The entries of a listing: models whose id is kept, is not kept, is empty,
\* is None.
ListedModels ==
    { PyObj([id |-> PyStr(i)]) :
        i \in { <<"g","p","t","-","5">>,
                <<"g","p","t","-","4","o","-","m","i","n","i">>,
                <<"g","p","t","-","4","o">>,
                <<"g","p","t","-","4","-","t","u","r","b","o">>,
                <<"g","p","t","-","4",".","1">>,
                <<"g","p","t","-","3",".","5","-","t","u","r","b","o">>,
                <<"o","1","-","m","i","n","i">>,
                <<"o","3","-","m","i","n","i">>,
                <<"g","p","t","-","i","m","a","g","e","-","1">>,
                <<"o","1">>,
                <<"w","h","i","s","p","e","r","-","1">>,
                <<>> } }
    \cup { PyObj([id |-> None_]) }

RECURSIVE Listings(_)
\* The listings of at most n entries.
Listings(n) ==
    IF n = 0 THEN {<<>>}
    ELSE Listings(n - 1)
         \cup { Append(l, m) : l \in { k \in Listings(n - 1) : Len(k) = n - 1 },
                               m \in ListedModels }

\* What client.models.list() does: it returns a listing or raises.
ListingOutcomes ==
    { [ok |-> TRUE, data |-> l] : l \in Listings(MaxListed) }
    \cup { [ok |-> FALSE, message |-> m] : m \in FailureMessages }

InitCatalog ==
    /\ probe \in [pc : {"fetch"}, api_key : CatalogKeys, outcome : ListingOutcomes,
                   models : {None_}, listed : {FALSE}]
    /\ api_key = <<"s","k">>
    /\ cancel_flag = FALSE
    /\ call = None_
    /\ quiet = None_
    /\ client = None_
    /\ calls = <<>>
    /\ alone = <<>>
    /\ flags = <<>>

FetchModels ==
    /\ probe.pc = "fetch"
    /\ LET fetched == FetchAvailableModels(probe.api_key, probe.outcome)
       IN  probe' = [probe EXCEPT !.pc = "fetched",
                                  !.models = fetched.models,
                                  !.listed = fetched.listed]
    /\ UNCHANGED <<sendVars, pairVars>>

NextCatalog == FetchModels

SpecCatalog == InitCatalog /\ [][NextCatalog]_vars

(***************************************************************************)
(* The model list of the main window: the combo box filled with            *)
(* AVAILABLE_MODELS, the one fetch of the account's models after start-up  *)
(* and the user's selections.                                              *)
(***************************************************************************)
\* The most entries of a listing fetched for the window.
MaxRefreshed == 2

AVAILABLE_MODELS ==
    << <<"g","p","t","-","4","o","-","m","i","n","i">>,
       <<"g","p","t","-","4","o">>,
       <<"g","p","t","-","4","-","t","u","r","b","o">>,
       <<"g","p","t","-","4",".","1">>,
       <<"g","p","t","-","4",".","1","-","m","i","n","i">>,
       <<"g","p","t","-","3",".","5","-","t","u","r","b","o">> >>

\* QComboBox: the items and the current index (from 0, -1 when empty).
ComboClear(combo) == [items |-> <<>>, index |-> -1]

ComboAddItems(combo, texts) ==
    [items |-> combo.items \o texts,
     index |-> IF combo.items = <<>> /\ texts # <<>> THEN 0 ELSE combo.index]

ComboCurrentText(combo) ==
    IF combo.index >= 0 THEN combo.items[combo.index + 1] ELSE <<>>

ComboFindText(combo, text) ==
    LET found == { i \in 1..Len(combo.items) : combo.items[i] = text }
    IN  IF found = {} THEN -1
        ELSE (CHOOSE i \in found : \A j \in found : i <= j) - 1

ComboSetCurrentIndex(combo, index) == [combo EXCEPT !.index = index]

\* setCurrentText of a combo box that is not editable.
ComboSetCurrentText(combo, text) ==
    IF ComboFindText(combo, text) >= 0
    THEN ComboSetCurrentIndex(combo, ComboFindText(combo, text))
    ELSE combo

\* The texts of a list of Python strings.
TextsOf(models) == [i \in 1..Len(models.v) |-> models.v[i].v]

StatusNone == "none"
StatusUpdated == "updated"
StatusFailed == "failed"

\* Faulty variant of OnModelsFetched: the fetched models are added to the
\* items the combo box has.
OnModelsFetchedMerging(window, models) ==
    IF Truthy(models) /\ Len(models.v) > 0
    THEN LET current_model == ComboCurrentText(window.model_combo)
             filled == ComboAddItems(window.model_combo, TextsOf(models))
             index == ComboFindText(filled, current_model)
         IN  [window EXCEPT
                !.model_combo = ComboSetCurrentIndex(filled, IF index >= 0 THEN index ELSE 0),
                !.status = StatusUpdated]
    ELSE [window EXCEPT !.status = StatusFailed]

\* MainWindow._on_models_fetched(models)
OnModelsFetched(window, models) ==
    IF Truthy(models) /\ Len(models.v) > 0
    THEN LET current_model == ComboCurrentText(window.model_combo)
             filled == ComboAddItems(ComboClear(window.model_combo), TextsOf(models))
             index == ComboFindText(filled, current_model)
         IN  [window EXCEPT
                !.model_combo = ComboSetCurrentIndex(filled, IF index >= 0 THEN index ELSE 0),
                !.status = StatusUpdated]
    ELSE [window EXCEPT !.status = StatusFailed]

\* config.model: the default, another listed model, a model that is not in
\* AVAILABLE_MODELS.
ConfigModels == { <<"g","p","t","-","4","o","-","m","i","n","i">>, <<"g","p","t","-","4",".","1">>, <<"g","p","t","-","5">> }

\* The key _fetch_models finds: none, or one.
WindowKeys == { <<>>, <<"s","k">> }

RefreshOutcomes ==
    { [ok |-> TRUE, data |-> l] : l \in Listings(MaxRefreshed) }
    \cup { [ok |-> FALSE, message |-> ErrBoom] }

\* The window after __init__: _setup_ui and _apply_config.
NewWindow(model) ==
    [pc |-> "timer",
     model_combo |-> ComboSetCurrentText(ComboAddItems(ComboClear(None_), AVAILABLE_MODELS),
                                         model),
     status |-> StatusNone,
     worker_key |-> <<>>,
     models |-> None_]

InitModelList ==
    /\ probe \in {NewWindow(model) : model \in ConfigModels}
    /\ api_key = <<"s","k">>
    /\ cancel_flag = FALSE
    /\ call = None_
    /\ quiet = None_
    /\ client = None_
    /\ calls = <<>>
    /\ alone = <<>>
    /\ flags = <<>>

\* _fetch_models, called once by the timer: without a key it returns, with
\* one it starts the worker.
StartFetch ==
    /\ probe.pc = "timer"
    /\ \E key \in WindowKeys :
          probe' = IF key = <<>>
                   THEN [probe EXCEPT !.pc = "default"]
                   ELSE [probe EXCEPT !.pc = "running", !.worker_key = key]
    /\ UNCHANGED <<sendVars, pairVars>>

\* ModelFetchWorker.run: the models are fetched and emitted.
WorkerRun ==
    /\ probe.pc = "running"
    /\ \E outcome \in RefreshOutcomes :
          probe' = [probe EXCEPT
                      !.pc = "emitted",
                      !.models = FetchAvailableModels(probe.worker_key, outcome).models]
    /\ UNCHANGED <<sendVars, pairVars>>

\* The finished signal is delivered to _on_models_fetched.
ModelsFetched ==
    /\ probe.pc = "emitted"
    /\ probe' = [OnModelsFetched(probe, probe.models) EXCEPT !.pc = "shown"]
    /\ UNCHANGED <<sendVars, pairVars>>

\* The user picks an entry of the combo box.
SelectModel ==
    /\ \E index \in 0..(Len(probe.model_combo.items) - 1) :
          /\ index # probe.model_combo.index
          /\ probe' = [probe EXCEPT
                         !.model_combo = ComboSetCurrentIndex(probe.model_combo, index)]
    /\ UNCHANGED <<sendVars, pairVars>>

NextModelList ==
    \/ StartFetch
    \/ WorkerRun
    \/ ModelsFetched
    \/ SelectModel

SpecModelList == InitModelList /\ [][NextModelList]_vars

(***************************************************************************)
(* The parameter negotiation on its own: the first create call fails with  *)
(* a message made of a word and a subject in either order.                 *)
(***************************************************************************)
\* The words of a failure message: the rejection keywords, words that are
\* none, no word; each as written, in upper case and capitalized.
RejectionWords ==
    UNION { Spellings(w) :
              w \in { <<"u","n","s","u","p","p","o","r","t","e","d">>,
                      <<"n","o","t"," ","s","u","p","p","o","r","t","e","d">>,
                      <<"u","n","k","n","o","w","n">>,
                      <<"i","n","v","a","l","i","d">>,
                      <<"u","n","r","e","c","o","g","n","i","z","e","d">>,
                      <<"u","n","s","u","p","p","o","r","t">>,
                      <<"s","u","p","p","o","r","t","e","d">>,
                      <<"e","r","r","o","r">>,
                      <<>> } }

\* What the message is about: the temperature in three spellings, something
\* else, nothing.
RejectionSubjects ==
    Spellings(<<"t","e","m","p","e","r","a","t","u","r","e">>)
    \cup { <<"t","e","m","p">>, <<"m","a","x","_","o","u","t","p","u","t","_","t","o","k","e","n","s">>, <<>> }

\* str(e) of the failure: the word and the subject, in either order.
NegotiationMessage(word, subject, word_first) ==
    IF word_first THEN word \o <<" ">> \o subject ELSE subject \o <<":", " ">> \o word

NegotiationArgs ==
    { a \in Args : /\ a.user_message = <<"h","i">>
                   /\ a.system_prompt = <<" ">>
                   /\ a.temperature = PyInt(0)
                   /\ ~a.on_chunk /\ ~a.cancel_event }

InitNegotiation ==
    /\ probe \in [word : RejectionWords, subject : RejectionSubjects,
                   word_first : BOOLEAN,
                   call : {Validate(NewCall(a), <<"s","k">>) : a \in NegotiationArgs}]
    /\ api_key = <<"s","k">>
    /\ cancel_flag = FALSE
    /\ call = None_
    /\ quiet = None_
    /\ client = None_
    /\ calls = <<>>
    /\ alone = <<>>
    /\ flags = <<>>

\* The first create call raises the failure.
FailFirst ==
    /\ probe.call.pc = "create"
    /\ probe' = [probe EXCEPT
                   !.call = FirstAttempt(@, [ok |-> FALSE,
                                             message |-> NegotiationMessage(probe.word,
                                                                            probe.subject,
                                                                            probe.word_first)])]
    /\ UNCHANGED <<sendVars, pairVars>>

\* The create call of the retry raises another failure.
FailRetry ==
    /\ probe.call.pc = "retry"
    /\ probe' = [probe EXCEPT !.call = RetryAttempt(@, [ok |-> FALSE, message |-> ErrBoom])]
    /\ UNCHANGED <<sendVars, pairVars>>

NextNegotiation ==
    \/ FailFirst
    \/ FailRetry

SpecNegotiation == InitNegotiation /\ [][NextNegotiation]_vars

(***************************************************************************)
(* One invocation against a transport whose answers are fixed beforehand   *)
(* (probe): the outcome of the create call and of its retry, the finite    *)
(* sequence of events of the stream and how the stream ends, what the      *)
(* stream's close and the callback do.  The caller sets the cancellation   *)
(* event at any point.                                                     *)
(***************************************************************************)
\* The most events of a scripted stream.
MaxScripted == 2

\* Invocations with one message, one system prompt and one temperature, of
\* every mode.
ScriptedArgs ==
    { a \in Args : /\ a.user_message = <<"h","i">>
                   /\ a.system_prompt = <<" ">>
                   /\ a.temperature = PyInt(7) }

\* What the create call and its retry do.
ScriptedOk == [ok |-> TRUE, reply |-> PyObj([output_text |-> PyStr(<<"H","i">>)])]

ScriptedCreates ==
    { <<ScriptedOk>>,
      <<[ok |-> FALSE, message |-> ErrBoom]>>,
      <<[ok |-> FALSE, message |-> ErrTempUnsupported], ScriptedOk>>,
      <<[ok |-> FALSE, message |-> ErrTempUnsupported],
        [ok |-> FALSE, message |-> ErrBoom]>> }

RECURSIVE ScriptedStreams(_)
\* The sequences of at most n events.
ScriptedStreams(n) ==
    IF n = 0 THEN {<<>>}
    ELSE ScriptedStreams(n - 1)
         \cup { Append(evs, e) : evs \in { l \in ScriptedStreams(n - 1) : Len(l) = n - 1 },
                                 e \in Events }

\* How the stream ends after its events: the iterator ends, or raises.
ScriptedEndings ==
    { [kind |-> "end"] }
    \cup { [kind |-> "raise", message |-> m] : m \in StreamFailureMessages }

\* The scripts of an invocation with the arguments a.
Scripts(a) ==
    { s \in [creates : ScriptedCreates,
             stream : ScriptedStreams(MaxScripted),
             ending : ScriptedEndings,
             close : {"absent", "raises"},
             raises : BOOLEAN] :
        /\ (~a.stream \/ ~s.creates[Len(s.creates)].ok) =>
              s.stream = <<>> /\ s.ending = [kind |-> "end"]
        /\ ~(a.stream /\ a.cancel_event) => s.close = "absent"
        /\ ~(a.stream /\ a.on_chunk) => ~s.raises }

\* What the transport, the stream's close and the callback do at the next
\* step of c, by the script.
ScriptedInput(c, script) ==
    [outcome |->
        CASE c.pc = "create" -> script.creates[1]
          [] c.pc = "retry" -> script.creates[Len(script.creates)]
          [] c.pc = "next" ->
                IF Len(c.events) < Len(script.stream)
                THEN [kind |-> "event", event |-> script.stream[Len(c.events) + 1]]
                ELSE script.ending
          [] OTHER -> [kind |-> "none"],
     close |-> script.close,
     raises |-> script.raises]

InitScripted ==
    /\ api_key \in ApiKeys
    /\ cancel_flag = FALSE
    /\ \E a \in ScriptedArgs :
          /\ call = NewCall(a)
          /\ probe \in Scripts(a)
    /\ quiet = None_
    /\ client = None_
    /\ calls = <<>>
    /\ alone = <<>>
    /\ flags = <<>>

\* The thread that runs send_message takes its next step.
Proceed ==
    /\ call.pc # "done"
    /\ call' = StepOfCall(call, api_key, cancel_flag, ScriptedInput(call, probe))
    /\ UNCHANGED <<api_key, cancel_flag, quiet, probeVars, pairVars>>

\* The caller sets the cancellation event while the call runs.
SetCancel ==
    /\ call.args.cancel_event
    /\ call.pc # "done"
    /\ ~cancel_flag
    /\ cancel_flag' = TRUE
    /\ UNCHANGED <<api_key, call, quiet, probeVars, pairVars>>

NextScripted ==
    \/ Proceed
    \/ SetCancel

\* The thread runs on: whenever send_message has a next step, it takes it.
\* This is weak fairness of Proceed, with the enabling condition of a step
\* of Proceed written out: the call has not returned.
SpecScripted ==
    /\ InitScripted
    /\ [][NextScripted]_vars
    /\ ([]<>(call.pc = "done") \/ []<><<Proceed>>_vars)

(***************************************************************************)
(* The API worker of the main window: send requests from the button and    *)
(* from Ctrl+Enter, the worker threads, their signals queued to the main   *)
(* thread, and the slots _on_chunk and _on_response.  A signal emitted by  *)
(* a worker thread is posted to the event queue of the main thread and is  *)
(* delivered in posting order; disconnecting a signal stops later          *)
(* emissions from being posted and leaves the posted ones in the queue.    *)
(***************************************************************************)
\* The most workers a window starts.
MaxWorkers == 2

\* The most send requests a window receives.
MaxRequests == 3

\* The most chunks one worker emits.
MaxChunks == 1

StatusNoKey == "no_key"
StatusNoInput == "no_input"
StatusRequesting == "requesting"
StatusDone == "done"
StatusError == "error"

\* QThread.isRunning(): run() has not returned.
IsRunning(thread) == thread.state # "finished"

\* setEnabled on the send button and on the settings controls.
SetControlsEnabled(window, enabled) ==
    [window EXCEPT
       !.send_btn = enabled,
       !.api_key_input = enabled,
       !.model_combo = enabled,
       !.temp_spin = enabled,
       !.tokens_spin = enabled,
       !.edit_preset_btn = enabled,
       !.save_config_btn = enabled]

ControlsEnabled(window) ==
    /\ window.send_btn
    /\ window.api_key_input
    /\ window.model_combo
    /\ window.temp_spin
    /\ window.tokens_spin
    /\ window.edit_preset_btn
    /\ window.save_config_btn

\* MainWindow._cleanup_worker: both signals of the old worker are
\* disconnected and the reference is dropped (the wait of at most one second
\* changes nothing in the window).
CleanupWorker(window) ==
    IF window.worker # 0
    THEN [window EXCEPT
            !.threads[window.worker].finished_connected = FALSE,
            !.threads[window.worker].chunk_connected = FALSE,
            !.worker = 0]
    ELSE window

\* ApiWorker(...) with both signals connected, started.
NewThread(message) ==
    [state |-> "running",
     message |-> message,
     content |-> <<>>,
     chunks |-> 0,
     finished_connected |-> TRUE,
     chunk_connected |-> TRUE]

\* Faulty variant of SendRequest: a request is not ignored while the worker
\* runs.
SendRequestWhileRunning(window, key_text, stored_key, text) ==
    LET key == IF Strip(key_text) # <<>> THEN Strip(key_text) ELSE stored_key
        input_text == Strip(text)
    IN  IF key = <<>> THEN [window EXCEPT !.status = StatusNoKey]
        ELSE IF input_text = <<>> THEN [window EXCEPT !.status = StatusNoInput]
        ELSE LET cleaned == CleanupWorker(window)
             IN  [SetControlsEnabled(cleaned, FALSE) EXCEPT
                    !.clients = @ + 1,
                    !.status = StatusRequesting,
                    !.output_text = <<>>,
                    !.threads = Append(@, NewThread(input_text)),
                    !.worker = Len(window.threads) + 1]

\* MainWindow._send_request: key_text is the text of the key field,
\* stored_key what get_api_key() finds (empty for None), text the input text.
SendRequest(window, key_text, stored_key, text) ==
    LET key == IF Strip(key_text) # <<>> THEN Strip(key_text) ELSE stored_key
        input_text == Strip(text)
    IN  IF key = <<>> THEN [window EXCEPT !.status = StatusNoKey]
        ELSE IF input_text = <<>> THEN [window EXCEPT !.status = StatusNoInput]
        ELSE IF window.worker # 0 /\ IsRunning(window.threads[window.worker])
        THEN window
        ELSE LET cleaned == CleanupWorker(window)
             IN  [SetControlsEnabled(cleaned, FALSE) EXCEPT
                    !.clients = @ + 1,
                    !.status = StatusRequesting,
                    !.output_text = <<>>,
                    !.threads = Append(@, NewThread(input_text)),
                    !.worker = Len(window.threads) + 1]

\* MainWindow._on_chunk(chunk_text)
OnChunk(window, chunk_text) ==
    [window EXCEPT !.output_text = @ \o chunk_text]

\* The text shown for a failed response.
ErrorText(error) == <<"E","r","r","o","r",":"," ">> \o error

\* Faulty variant of OnResponse: the controls are enabled again only after a
\* response that succeeded.
OnResponseEnablesOnSuccess(window, response) ==
    IF response.success
    THEN [SetControlsEnabled(window, TRUE) EXCEPT !.status = StatusDone]
    ELSE [window EXCEPT
            !.output_text = ErrorText(response.error),
            !.status = StatusError]

\* MainWindow._on_response(response)
OnResponse(window, response) ==
    LET enabled == SetControlsEnabled(window, TRUE)
    IN  IF response.success
        THEN [enabled EXCEPT !.status = StatusDone]
        ELSE [enabled EXCEPT
                !.output_text = ErrorText(response.error),
                !.status = StatusError]

\* The text of the key field and the key get_api_key() finds.
KeyTexts == { <<>>, <<"s","k">> }

\* The input text: blank, or a message.
InputTexts == { <<" ">>, <<"h","i">> }

\* The chunk a worker emits.
ChunkTexts == { <<"a">> }

\* What send_message returns to the worker.
WorkerResponses(thread) ==
    { ChatResponse(TRUE, thread.content, <<>>, FALSE),
      ChatResponse(FALSE, <<>>, ErrBoom, FALSE) }

\* The window after __init__, with no worker.
NewSendWindow ==
    [open |-> TRUE,
     worker |-> 0,
     threads |-> <<>>,
     clients |-> 0,
     queue |-> <<>>,
     send_btn |-> TRUE,
     api_key_input |-> TRUE,
     model_combo |-> TRUE,
     temp_spin |-> TRUE,
     tokens_spin |-> TRUE,
     edit_preset_btn |-> TRUE,
     save_config_btn |-> TRUE,
     output_text |-> <<>>,
     status |-> StatusNone,
     requests |-> 0,
     delivered |-> {}]

InitWorker ==
    /\ probe = NewSendWindow
    /\ api_key = <<"s","k">>
    /\ cancel_flag = FALSE
    /\ call = None_
    /\ quiet = None_
    /\ client = None_
    /\ calls = <<>>
    /\ alone = <<>>
    /\ flags = <<>>

\* The request a user makes: requests counts them.
Requested(key_text, stored_key, text) ==
    LET window == SendRequest(probe, key_text, stored_key, text)
    IN  /\ Len(window.threads) <= MaxWorkers
        /\ probe' = [window EXCEPT !.requests = @ + 1]

\* A click on the send button, which is possible while it is enabled.
ClickSend ==
    /\ probe.open
    /\ probe.send_btn
    /\ probe.requests < MaxRequests
    /\ \E key_text \in KeyTexts, stored_key \in KeyTexts, text \in InputTexts :
          Requested(key_text, stored_key, text)
    /\ UNCHANGED <<sendVars, pairVars>>

\* eventFilter: Ctrl+Enter in the input field calls _send_request, whatever
\* the state of the button.
CtrlEnter ==
    /\ probe.open
    /\ probe.requests < MaxRequests
    /\ \E key_text \in KeyTexts, stored_key \in KeyTexts, text \in InputTexts :
          Requested(key_text, stored_key, text)
    /\ UNCHANGED <<sendVars, pairVars>>

\* ApiWorker._on_chunk in the worker thread: chunk_received is emitted, and
\* posted to the main thread while it is connected.
EmitChunk ==
    /\ probe.open
    /\ \E id \in 1..Len(probe.threads) :
          /\ probe.threads[id].state = "running"
          /\ probe.threads[id].chunks < MaxChunks
          /\ \E chunk_text \in ChunkTexts :
                probe' = [probe EXCEPT
                            !.threads[id].content = @ \o chunk_text,
                            !.threads[id].chunks = @ + 1,
                            !.queue = IF probe.threads[id].chunk_connected
                                      THEN Append(@, [signal |-> "chunk_received",
                                                      worker |-> id,
                                                      chunk_text |-> chunk_text])
                                      ELSE @]
    /\ UNCHANGED <<sendVars, pairVars>>

\* ApiWorker.run: send_message has returned and finished is emitted.
EmitFinished ==
    /\ probe.open
    /\ \E id \in 1..Len(probe.threads) :
          /\ probe.threads[id].state = "running"
          /\ \E response \in WorkerResponses(probe.threads[id]) :
                probe' = [probe EXCEPT
                            !.threads[id].state = "emitted",
                            !.queue = IF probe.threads[id].finished_connected
                                      THEN Append(@, [signal |-> "finished",
                                                      worker |-> id,
                                                      response |-> response])
                                      ELSE @]
    /\ UNCHANGED <<sendVars, pairVars>>

\* run() returns and the thread ends.
ThreadExit ==
    /\ probe.open
    /\ \E id \in 1..Len(probe.threads) :
          /\ probe.threads[id].state = "emitted"
          /\ probe' = [probe EXCEPT !.threads[id].state = "finished"]
    /\ UNCHANGED <<sendVars, pairVars>>

\* The event loop of the main thread delivers the oldest posted signal to
\* its slot.
DeliverSignal ==
    /\ probe.open
    /\ probe.queue # <<>>
    /\ LET posted == Head(probe.queue)
           window == [probe EXCEPT !.queue = Tail(@)]
       IN  probe' = IF posted.signal = "chunk_received"
                    THEN OnChunk(window, posted.chunk_text)
                    ELSE [OnResponse(window, posted.response) EXCEPT
                            !.delivered = @ \cup {posted.worker}]
    /\ UNCHANGED <<sendVars, pairVars>>

\* closeEvent: the worker is cleaned up and the window closes; the
\* application ends with its only window.
CloseWindow ==
    /\ probe.open
    /\ probe' = [CleanupWorker(probe) EXCEPT !.open = FALSE]
    /\ UNCHANGED <<sendVars, pairVars>>

NextWorker ==
    \/ ClickSend
    \/ CtrlEnter
    \/ EmitChunk
    \/ EmitFinished
    \/ ThreadExit
    \/ DeliverSignal
    \/ CloseWindow

\* Fair scheduling: a worker thread that can go on does, and the event loop
\* delivers a posted signal.
SpecWorker ==
    /\ InitWorker
    /\ [][NextWorker]_vars
    /\ WF_vars(EmitFinished)
    /\ WF_vars(ThreadExit)
    /\ WF_vars(DeliverSignal)

(***************************************************************************)
(* The prompt presets: AppConfig with its preset list and                  *)
(* active_preset_index, the preset buttons and the system prompt field of  *)
(* the main window, and the preset editor dialog.  The texts of names and  *)
(* prompts are short stand-ins, one per text of the source.                *)
(***************************************************************************)
\* The most presets a list is grown to.
MaxPresets == 6

\* The most operations on one configuration.
MaxPresetOps == 4

DEFAULT_PRESETS ==
    << [name |-> <<"t","r">>, prompt |-> <<"T","R">>],
       [name |-> <<"c","o">>, prompt |-> <<"C","O">>],
       [name |-> <<"s","u">>, prompt |-> <<"S","U">>],
       [name |-> <<"p","r">>, prompt |-> <<"P","R">>],
       [name |-> <<"e","x">>, prompt |-> <<"E","X">>] >>

\* `del l[index]`, index counted from 0.
DelItem(l, index) == SubSeq(l, 1, index) \o SubSeq(l, index + 2, Len(l))

\* `l[index] = item`, index counted from 0.
SetItem(l, index, item) == [l EXCEPT ![index + 1] = item]

\* AppConfig.__post_init__ on the constructor's presets,
\* active_preset_index and system_prompt.
PostInit(presets, active_preset_index, system_prompt) ==
    LET filled == IF presets = <<>> THEN DEFAULT_PRESETS ELSE presets
    IN  IF system_prompt = <<>> /\ filled # <<>>
        THEN IF 0 <= active_preset_index /\ active_preset_index < Len(filled)
             THEN [presets |-> filled,
                   active_preset_index |-> active_preset_index,
                   system_prompt |-> filled[active_preset_index + 1].prompt]
             ELSE [presets |-> filled,
                   active_preset_index |-> 0,
                   system_prompt |-> filled[1].prompt]
        ELSE [presets |-> filled,
              active_preset_index |-> active_preset_index,
              system_prompt |-> system_prompt]

\* AppConfig.add_preset(name, prompt)
AddPreset(config, name, prompt) ==
    [config |-> [config EXCEPT !.presets = Append(@, [name |-> name, prompt |-> prompt])],
     value |-> Len(config.presets)]

\* Faulty variant of RemovePreset: the last preset can be removed too.
RemovePresetAnyLength(config, index) ==
    IF 0 <= index /\ index < Len(config.presets)
    THEN LET presets == DelItem(config.presets, index)
         IN  [config |-> [config EXCEPT
                            !.presets = presets,
                            !.active_preset_index =
                                IF @ >= Len(presets) THEN Len(presets) - 1 ELSE @],
              value |-> TRUE]
    ELSE [config |-> config, value |-> FALSE]

\* AppConfig.remove_preset(index)
RemovePreset(config, index) ==
    IF 0 <= index /\ index < Len(config.presets) /\ Len(config.presets) > 1
    THEN LET presets == DelItem(config.presets, index)
         IN  [config |-> [config EXCEPT
                            !.presets = presets,
                            !.active_preset_index =
                                IF @ >= Len(presets) THEN Len(presets) - 1 ELSE @],
              value |-> TRUE]
    ELSE [config |-> config, value |-> FALSE]

\* AppConfig.update_preset(index, name, prompt)
UpdatePreset(config, index, name, prompt) ==
    IF 0 <= index /\ index < Len(config.presets)
    THEN [config |-> [config EXCEPT
                        !.presets = SetItem(@, index, [name |-> name, prompt |-> prompt])],
          value |-> TRUE]
    ELSE [config |-> config, value |-> FALSE]

\* MainWindow._on_preset_clicked(index)
OnPresetClicked(window, index) ==
    IF 0 <= index /\ index < Len(window.config.presets)
    THEN LET preset == window.config.presets[index + 1]
         IN  [window EXCEPT
                !.config.active_preset_index = index,
                !.system_prompt_input = preset.prompt,
                !.config.system_prompt = preset.prompt]
    ELSE window

\* MainWindow._on_prompt_manually_changed, after the field's text changed.
OnPromptManuallyChanged(window) ==
    LET current_text == window.system_prompt_input
        active == window.config.active_preset_index
        custom == /\ 0 <= active
                  /\ active < Len(window.config.presets)
                  /\ current_text # window.config.presets[active + 1].prompt
    IN  [window EXCEPT
           !.config.active_preset_index = IF custom THEN -1 ELSE @,
           !.config.system_prompt = current_text]

\* PresetEditorDialog._on_selection_changed(index)
OnSelectionChanged(dialog, index) == [dialog EXCEPT !.selected_index = index]

\* QListWidget.setCurrentRow(row): currentRowChanged is emitted when the
\* current row changes.
SetCurrentRow(dialog, row) ==
    IF row = dialog.current_row THEN dialog
    ELSE OnSelectionChanged([dialog EXCEPT !.current_row = row], row)

\* PresetEditorDialog._update_list: the list is cleared (which takes the
\* current row away), filled, and a row is made current.
UpdateList(dialog) ==
    LET cleared == SetCurrentRow(dialog, -1)
    IN  IF 0 <= cleared.selected_index /\ cleared.selected_index < Len(cleared.presets)
        THEN SetCurrentRow(cleared, cleared.selected_index)
        ELSE IF cleared.presets # <<>> THEN SetCurrentRow(cleared, 0)
        ELSE cleared

\* PresetEditorDialog(presets, parent)
NewDialog(presets) ==
    UpdateList([presets |-> presets, selected_index |-> -1, current_row |-> -1])

RECURSIVE Decimal(_)
\* str(n) of a natural number.
Decimal(n) ==
    LET digit == <<"0","1","2","3","4","5","6","7","8","9">>[(n % 10) + 1]
    IN  IF n < 10 THEN <<digit>> ELSE Append(Decimal(n \div 10), digit)

\* PresetEditorDialog._add_preset
DialogAddPreset(dialog) ==
    LET new_preset == [name |-> <<"P">> \o Decimal(Len(dialog.presets) + 1),
                       prompt |-> <<>>]
        presets == Append(dialog.presets, new_preset)
    IN  UpdateList([dialog EXCEPT
                      !.presets = presets,
                      !.selected_index = Len(presets) - 1])

\* PresetEditorDialog._remove_preset
DialogRemovePreset(dialog) ==
    IF /\ 0 <= dialog.selected_index
       /\ dialog.selected_index < Len(dialog.presets)
       /\ Len(dialog.presets) > 1
    THEN LET presets == DelItem(dialog.presets, dialog.selected_index)
         IN  UpdateList([dialog EXCEPT
                           !.presets = presets,
                           !.selected_index =
                               IF @ >= Len(presets) THEN Len(presets) - 1 ELSE @])
    ELSE dialog

\* The list with the entries at idx and other (from 0) exchanged.
Exchanged(l, idx, other) ==
    [l EXCEPT ![idx + 1] = l[other + 1], ![other + 1] = l[idx + 1]]

\* PresetEditorDialog._move_up
MoveUp(dialog) ==
    IF dialog.selected_index > 0
    THEN UpdateList([dialog EXCEPT
                       !.presets = Exchanged(@, dialog.selected_index,
                                             dialog.selected_index - 1),
                       !.selected_index = @ - 1])
    ELSE dialog

\* PresetEditorDialog._move_down, reached with a row selected.
MoveDown(dialog) ==
    IF dialog.selected_index < Len(dialog.presets) - 1
    THEN UpdateList([dialog EXCEPT
                       !.presets = Exchanged(@, dialog.selected_index,
                                             dialog.selected_index + 1),
                       !.selected_index = @ + 1])
    ELSE dialog

\* PresetEditorDialog._reset_to_default, answered with Yes.
ResetToDefault(dialog) ==
    UpdateList([dialog EXCEPT !.presets = DEFAULT_PRESETS, !.selected_index = 0])

\* PresetEditorDialog._on_name_changed(text)
OnNameChanged(dialog, text) ==
    IF 0 <= dialog.selected_index /\ dialog.selected_index < Len(dialog.presets)
    THEN [dialog EXCEPT !.presets[dialog.selected_index + 1].name = text]
    ELSE dialog

\* PresetEditorDialog._on_prompt_changed, the prompt field holding text.
OnPromptChanged(dialog, text) ==
    IF 0 <= dialog.selected_index /\ dialog.selected_index < Len(dialog.presets)
    THEN [dialog EXCEPT !.presets[dialog.selected_index + 1].prompt = text]
    ELSE dialog

\* Faulty variant of AcceptPresets: active_preset_index is kept as it is.
AcceptPresetsKeepsIndex(window) ==
    [window EXCEPT
       !.config.presets = window.dialog.presets,
       !.preset_buttons = Len(window.dialog.presets),
       !.config.system_prompt = window.system_prompt_input,
       !.dialog = None_]

\* MainWindow._open_preset_editor after the dialog was accepted: the presets
\* are taken over, the active index adjusted, the buttons made again and the
\* configuration saved.
AcceptPresets(window) ==
    LET presets == window.dialog.presets
    IN  [window EXCEPT
           !.config.presets = presets,
           !.config.active_preset_index = IF @ >= Len(presets) THEN 0 ELSE @,
           !.preset_buttons = Len(presets),
           !.config.system_prompt = window.system_prompt_input,
           !.dialog = None_]

\* The preset an add or an update is called with, and the one typed in the
\* editor.
NewPresets == { [name |-> <<"n">>, prompt |-> <<"p">>] }

\* The indices a caller passes: in range, and out of range on both sides.
PresetIndices == (-1)..MaxPresets

\* The text typed into the system prompt field: the prompt of a default
\* preset, or another text.
PromptTexts == { <<"C","O">>, <<"x">> }

\* The constructor's presets: none, one, two.
CtorPresets ==
    { <<>>,
      <<[name |-> <<"a">>, prompt |-> <<"A">>]>>,
      <<[name |-> <<"a">>, prompt |-> <<"A">>], [name |-> <<"b">>, prompt |-> <<"B">>]>> }

\* The constructor's active_preset_index and system_prompt.
CtorIndices == { -1, 0, 1, MaxPresets + 1 }

CtorPrompts == { <<>>, <<"x">> }

\* The dialog is open: the main window takes no input.
EditorOpen == "dialog" \in DOMAIN probe /\ probe.dialog # None_

\* The main window after __init__: _apply_config sets the prompt field and
\* makes one button per preset.
NewPresetWindow(config) ==
    OnPromptManuallyChanged(
        [config |-> config,
         system_prompt_input |-> config.system_prompt,
         preset_buttons |-> Len(config.presets),
         dialog |-> None_,
         returned |-> None_,
         ops |-> 0])

\* An AppConfig of any constructor arguments, without a window.
InitConfig ==
    /\ \E presets \in CtorPresets, index \in CtorIndices, prompt \in CtorPrompts :
          probe = [config |-> PostInit(presets, index, prompt),
                   returned |-> None_,
                   ops |-> 0]
    /\ api_key = <<"s","k">>
    /\ cancel_flag = FALSE
    /\ call = None_
    /\ quiet = None_
    /\ client = None_
    /\ calls = <<>>
    /\ alone = <<>>
    /\ flags = <<>>

\* The window of a default AppConfig.
InitPresets ==
    /\ probe = NewPresetWindow(PostInit(<<>>, 0, <<>>))
    /\ api_key = <<"s","k">>
    /\ cancel_flag = FALSE
    /\ call = None_
    /\ quiet = None_
    /\ client = None_
    /\ calls = <<>>
    /\ alone = <<>>
    /\ flags = <<>>

\* config.add_preset(name, prompt)
CallAddPreset ==
    /\ ~EditorOpen
    /\ probe.ops < MaxPresetOps
    /\ Len(probe.config.presets) < MaxPresets
    /\ \E new \in NewPresets :
          LET done == AddPreset(probe.config, new.name, new.prompt)
          IN  probe' = [probe EXCEPT
                          !.config = done.config,
                          !.returned = [op |-> "add_preset", index |-> -1,
                                        value |-> done.value],
                          !.ops = @ + 1]
    /\ UNCHANGED <<sendVars, pairVars>>

\* config.remove_preset(index)
CallRemovePreset ==
    /\ ~EditorOpen
    /\ probe.ops < MaxPresetOps
    /\ \E index \in PresetIndices :
          LET done == RemovePreset(probe.config, index)
          IN  probe' = [probe EXCEPT
                          !.config = done.config,
                          !.returned = [op |-> "remove_preset", index |-> index,
                                        value |-> done.value],
                          !.ops = @ + 1]
    /\ UNCHANGED <<sendVars, pairVars>>

\* config.update_preset(index, name, prompt)
CallUpdatePreset ==
    /\ ~EditorOpen
    /\ probe.ops < MaxPresetOps
    /\ \E index \in PresetIndices, new \in NewPresets :
          LET done == UpdatePreset(probe.config, index, new.name, new.prompt)
          IN  probe' = [probe EXCEPT
                          !.config = done.config,
                          !.returned = [op |-> "update_preset", index |-> index,
                                        value |-> done.value],
                          !.ops = @ + 1]
    /\ UNCHANGED <<sendVars, pairVars>>

NextConfig ==
    \/ CallAddPreset
    \/ CallRemovePreset
    \/ CallUpdatePreset

SpecConfig == InitConfig /\ [][NextConfig]_vars

\* A click on one of the preset buttons the window has.
ClickPreset ==
    /\ ~EditorOpen
    /\ probe.ops < MaxPresetOps
    /\ \E index \in 0..(probe.preset_buttons - 1) :
          probe' = [OnPresetClicked(probe, index) EXCEPT
                      !.returned = None_, !.ops = @ + 1]
    /\ UNCHANGED <<sendVars, pairVars>>

\* The user changes the text of the system prompt field.
EditPrompt ==
    /\ ~EditorOpen
    /\ probe.ops < MaxPresetOps
    /\ \E text \in PromptTexts :
          /\ text # probe.system_prompt_input
          /\ probe' = [OnPromptManuallyChanged([probe EXCEPT !.system_prompt_input = text])
                         EXCEPT !.returned = None_, !.ops = @ + 1]
    /\ UNCHANGED <<sendVars, pairVars>>

\* _open_preset_editor: the dialog is made from the presets and shown.
OpenEditor ==
    /\ ~EditorOpen
    /\ probe.ops < MaxPresetOps
    /\ probe' = [probe EXCEPT
                   !.dialog = NewDialog(probe.config.presets),
                   !.returned = None_,
                   !.ops = @ + 1]
    /\ UNCHANGED <<sendVars, pairVars>>

\* The user picks another row of the dialog's list.
EditorSelect ==
    /\ EditorOpen
    /\ probe.ops < MaxPresetOps
    /\ \E row \in 0..(Len(probe.dialog.presets) - 1) :
          /\ row # probe.dialog.current_row
          /\ probe' = [probe EXCEPT !.dialog = SetCurrentRow(@, row), !.ops = @ + 1]
    /\ UNCHANGED <<sendVars, pairVars>>

\* The add button of the dialog.
EditorAdd ==
    /\ EditorOpen
    /\ probe.ops < MaxPresetOps
    /\ Len(probe.dialog.presets) < MaxPresets
    /\ probe' = [probe EXCEPT !.dialog = DialogAddPreset(@), !.ops = @ + 1]
    /\ UNCHANGED <<sendVars, pairVars>>

\* The remove button, enabled with a selection and more than one preset.
EditorRemove ==
    /\ EditorOpen
    /\ probe.ops < MaxPresetOps
    /\ probe.dialog.selected_index >= 0
    /\ Len(probe.dialog.presets) > 1
    /\ probe' = [probe EXCEPT !.dialog = DialogRemovePreset(@), !.ops = @ + 1]
    /\ UNCHANGED <<sendVars, pairVars>>

\* The up and down buttons, enabled with a selection that can move.
EditorMove ==
    /\ EditorOpen
    /\ probe.ops < MaxPresetOps
    /\ probe.dialog.selected_index >= 0
    /\ \/ /\ probe.dialog.selected_index > 0
          /\ probe' = [probe EXCEPT !.dialog = MoveUp(@), !.ops = @ + 1]
       \/ /\ probe.dialog.selected_index < Len(probe.dialog.presets) - 1
          /\ probe' = [probe EXCEPT !.dialog = MoveDown(@), !.ops = @ + 1]
    /\ UNCHANGED <<sendVars, pairVars>>

\* The reset button, confirmed.
EditorReset ==
    /\ EditorOpen
    /\ probe.ops < MaxPresetOps
    /\ probe' = [probe EXCEPT !.dialog = ResetToDefault(@), !.ops = @ + 1]
    /\ UNCHANGED <<sendVars, pairVars>>

\* The user types a name or a prompt for the selected preset.
EditorEdit ==
    /\ EditorOpen
    /\ probe.ops < MaxPresetOps
    /\ probe.dialog.selected_index >= 0
    /\ \E new \in NewPresets :
          \/ probe' = [probe EXCEPT !.dialog = OnNameChanged(@, new.name), !.ops = @ + 1]
          \/ probe' = [probe EXCEPT !.dialog = OnPromptChanged(@, new.prompt), !.ops = @ + 1]
    /\ UNCHANGED <<sendVars, pairVars>>

\* OK: dialog.exec() returns Accepted.
EditorAccept ==
    /\ EditorOpen
    /\ probe' = [AcceptPresets(probe) EXCEPT !.ops = IF @ < MaxPresetOps THEN @ + 1 ELSE @]
    /\ UNCHANGED <<sendVars, pairVars>>

\* Cancel: the dialog's presets are dropped.
EditorReject ==
    /\ EditorOpen
    /\ probe' = [probe EXCEPT !.dialog = None_,
                              !.ops = IF @ < MaxPresetOps THEN @ + 1 ELSE @]
    /\ UNCHANGED <<sendVars, pairVars>>

NextPresets ==
    \/ CallAddPreset
    \/ CallRemovePreset
    \/ CallUpdatePreset
    \/ ClickPreset
    \/ EditPrompt
    \/ OpenEditor
    \/ EditorSelect
    \/ EditorAdd
    \/ EditorRemove
    \/ EditorMove
    \/ EditorReset
    \/ EditorEdit
    \/ EditorAccept
    \/ EditorReject

SpecPresets == InitPresets /\ [][NextPresets]_vars

(***************************************************************************)
(* Vocabulary of the properties.                                           *)
(***************************************************************************)
Done == call.pc = "done"

IsDeltaEvent(ev) == GetAttr(ev, "type") = PyStr(TypeDelta)

IsErrorEvent(ev) == GetAttr(ev, "type") = PyStr(TypeError)

\* The text a stream event contributes: the delta of a delta-text event.
DeltaOf(ev) == IF IsDeltaEvent(ev) THEN ExtractDeltaText(ev) ELSE <<>>

RECURSIVE ConcatDeltas(_)
\* The concatenation of the deltas of evs, in order.
ConcatDeltas(evs) ==
    IF evs = <<>> THEN <<>> ELSE DeltaOf(Head(evs)) \o ConcatDeltas(Tail(evs))

RECURSIVE NonEmptyDeltas(_)
\* The non-empty deltas of evs, one element each, in order.
NonEmptyDeltas(evs) ==
    IF evs = <<>> THEN <<>>
    ELSE (IF DeltaOf(Head(evs)) # <<>> THEN <<DeltaOf(Head(evs))>> ELSE <<>>)
         \o NonEmptyDeltas(Tail(evs))

RECURSIVE ChunkDeltas(_)
\* The arguments the callback was invoked with, in order.
ChunkDeltas(chunks) ==
    IF chunks = <<>> THEN <<>>
    ELSE <<Head(chunks).delta>> \o ChunkDeltas(Tail(chunks))

\* The events before the last one received.
EarlierEvents(c) == SubSeq(c.events, 1, Len(c.events) - 1)

\* The first create call failed, with this text.
FirstCreateFailed(c) == Len(c.creates) >= 1 /\ c.creates[1].error # None_

\* The retry was made and failed.
RetryFailed(c) == Len(c.creates) >= 2 /\ c.creates[2].error # None_

(***************************************************************************)
(* C1.  When the first create call fails with a temperature-rejection      *)
(* message, exactly one further create call is made (once the call has     *)
(* left the retry position) and its ParameterSet has no temperature field; *)
(* when it fails with any other message, no further create call is made    *)
(* and the call has ended.  Streaming and non-streaming alike.             *)
(***************************************************************************)
C1_NegotiationRetry ==
    FirstCreateFailed(call) =>
        IF IsTemperatureError(call.creates[1].error.v)
        THEN \/ call.pc = "retry" /\ Len(call.creates) = 1
             \/ /\ Len(call.creates) = 2
                /\ "temperature" \notin DOMAIN call.creates[2].params
        ELSE Len(call.creates) = 1 /\ Done

\* A streaming call that succeeded on the retry of a first attempt whose
\* ParameterSet carried the temperature.
C1_Witness ==
    /\ Done /\ call.args.stream /\ call.result.success
    /\ Len(call.creates) = 2
    /\ "temperature" \in DOMAIN call.creates[1].params
    /\ call.events # <<>>

(***************************************************************************)
(* C2.  The create operation is invoked at most twice in one call; a       *)
(* failure of the second attempt, whatever its message, ends the call with *)
(* success = false and error = the classifier's output for that message.   *)
(***************************************************************************)
C2_AtMostTwoCreates ==
    /\ Len(call.creates) <= 2
    /\ RetryFailed(call) =>
          /\ Done
          /\ call.result = Failure(LocalizeError(call.creates[2].error.v))

\* The retry failed with another temperature-rejection message.
C2_Witness ==
    /\ RetryFailed(call)
    /\ IsTemperatureError(call.creates[2].error.v)
    /\ call.result.error = MsgRateLimit

(***************************************************************************)
(* C3.  When the cancellation flag is set at the check for event k, the    *)
(* call returns at that check with success = true, cancelled = true,       *)
(* error = "" and content = the concatenation of the deltas of events      *)
(* 1..k-1; event k invokes no callback, and once the call has returned no  *)
(* later event changes anything.                                           *)
(***************************************************************************)
C3_CancelBeforeEvent ==
    [][ /\ (call.pc = "check" /\ call.args.cancel_event /\ cancel_flag) =>
             /\ call'.pc = "done"
             /\ call'.result =
                   ChatResponse(TRUE, ConcatDeltas(EarlierEvents(call)), <<>>, TRUE)
             /\ call'.chunks = call.chunks
             /\ call.args.on_chunk =>
                   ChunkDeltas(call.chunks) = NonEmptyDeltas(EarlierEvents(call))
        /\ Done => call' = call ]_vars

\* Cancellation observed at the third event, a delta, after text was
\* accumulated and passed to the callback.
C3_Witness ==
    /\ Done /\ call.result.cancelled
    /\ Len(call.events) = 3
    /\ DeltaOf(call.events[3]) # <<>>
    /\ call.result.content # <<>>
    /\ call.chunks # <<>>

(***************************************************************************)
(* C4.  Every returned ChatResponse has content = "" when success is false *)
(* and success = true when cancelled is true.                              *)
(***************************************************************************)
C4_ResultInvariant ==
    Done =>
        /\ (~call.result.success => call.result.content = <<>>)
        /\ (call.result.cancelled => call.result.success)

\* A failure returned after text had been accumulated.
C4_Witness == Done /\ ~call.result.success /\ call.full_content # <<>>

(***************************************************************************)
(* C5.  A streaming call whose stream ends naturally returns success =     *)
(* true, cancelled = false and content = the concatenation of the deltas   *)
(* of all events in arrival order; a callback, when given, was invoked     *)
(* once per non-empty delta, in order, with that increment alone.          *)
(***************************************************************************)
C5_StreamAccumulation ==
    (Done /\ call.exhausted) =>
        /\ call.result = ChatResponse(TRUE, ConcatDeltas(call.events), <<>>, FALSE)
        /\ ChunkDeltas(call.chunks) =
              IF call.args.on_chunk THEN NonEmptyDeltas(call.events) ELSE <<>>

\* "c" then "ab" then an empty delta: two callback invocations.
C5_Witness ==
    /\ Done /\ call.exhausted
    /\ call.result.content = <<"c","a","b">>
    /\ Len(call.events) = 3
    /\ Len(call.chunks) = 2

(***************************************************************************)
(* C6.  An error event that is processed (not pre-empted by an observed    *)
(* cancellation) ends the call: success = false, cancelled = false,        *)
(* content = "", error = the classifier's output for the event's failure   *)
(* text; no event is received after it.                                    *)
(***************************************************************************)
C6_StreamErrorEvent ==
    /\ \A i \in 1..(Len(call.events) - 1) : ~IsErrorEvent(call.events[i])
    /\ ( /\ call.events # <<>>
         /\ IsErrorEvent(call.events[Len(call.events)])
         /\ call.pc \notin {"check", "event"} ) =>
            /\ Done
            /\ \/ call.result.cancelled
               \/ call.result =
                     Failure(LocalizeError(ErrorEventText(call.events[Len(call.events)])))

\* An error event processed after two deltas: the accumulated text is dropped.
C6_Witness ==
    /\ Done /\ ~call.result.success
    /\ Len(call.events) = 3
    /\ IsErrorEvent(call.events[3])
    /\ Len(call.full_content) = 3
    /\ call.result.error = MsgRateLimit

(***************************************************************************)
(* C7.  Whichever callback invocations raise, the invocation stays in step *)
(* with the one whose callback never raises: same position, same           *)
(* accumulator, same callback arguments, same returned ChatResponse.       *)
(***************************************************************************)
C7_CallbackErrorsIgnored ==
    /\ call.pc = quiet.pc
    /\ call.full_content = quiet.full_content
    /\ ChunkDeltas(call.chunks) = ChunkDeltas(quiet.chunks)
    /\ call.result = quiet.result
    /\ \A i \in 1..Len(quiet.chunks) : ~quiet.chunks[i].raised

\* The first callback invocation raised, a later one was still made, and
\* the stream ran to its end.
C7_Witness ==
    /\ Done /\ call.exhausted
    /\ Len(call.chunks) >= 2
    /\ call.chunks[1].raised

(***************************************************************************)
(* C8.  No failure leaves send_message as an exception: after a create     *)
(* failure that is not retried, a failure of the retry, a failure raised   *)
(* by the stream iterator or a processed error event, the call has         *)
(* returned success = false, cancelled = false and error = the classifier  *)
(* applied once to the raw failure text.                                   *)
(***************************************************************************)
\* The raw texts of the terminal failures that have occurred.
TerminalFailures(c) ==
    (IF FirstCreateFailed(c) /\ ~IsTemperatureError(c.creates[1].error.v)
     THEN {c.creates[1].error.v} ELSE {})
    \cup (IF RetryFailed(c) THEN {c.creates[2].error.v} ELSE {})
    \cup (IF c.raised # None_ THEN {c.raised.v} ELSE {})
    \cup (IF /\ c.events # <<>>
             /\ IsErrorEvent(c.events[Len(c.events)])
             /\ c.pc \notin {"check", "event"}
             /\ ~(c.pc = "done" /\ c.result.cancelled)
          THEN {ErrorEventText(c.events[Len(c.events)])} ELSE {})

C8_FailuresReturned ==
    /\ call.pc # "raised"
    /\ \A m \in TerminalFailures(call) :
          /\ Done
          /\ call.result = ChatResponse(FALSE, <<>>, LocalizeError(m), FALSE)
          /\ call.localized = 1

\* The stream iterator raised a rate-limit failure after a delta.
C8_Witness ==
    /\ Done /\ call.raised = PyStr(ErrRateLimit)
    /\ call.full_content # <<>>
    /\ call.result.error = MsgRateLimit

(***************************************************************************)
(* C9.  A user_message that is empty or only whitespace makes send_message *)
(* return success = false with the empty-input message, whatever the other *)
(* arguments and the credential: no create call, no callback, no           *)
(* classifier.                                                             *)
(***************************************************************************)
IsBlank(s) == \A i \in 1..Len(s) : s[i] \in Whitespace

C9_BlankMessageRejected ==
    (IsBlank(call.args.user_message) /\ call.pc # "send_message") =>
        /\ Done
        /\ call.result = ChatResponse(FALSE, <<>>, MsgEmptyInput, FALSE)
        /\ call.creates = <<>>
        /\ call.chunks = <<>>
        /\ call.localized = 0

\* A whitespace-only message on a client without credential.
C9_Witness ==
    /\ Done /\ call.args.user_message = <<" ","\n">>
    /\ api_key = <<>>
    /\ call.args.stream /\ call.args.on_chunk

(***************************************************************************)
(* C10.  With an empty credential and a non-blank user_message,            *)
(* send_message returns success = false with the missing-credential        *)
(* message: no create call, no classifier.                                 *)
(***************************************************************************)
C10_MissingCredentialRejected ==
    (api_key = <<>> /\ ~IsBlank(call.args.user_message) /\ call.pc # "send_message") =>
        /\ Done
        /\ call.result = ChatResponse(FALSE, <<>>, MsgNoApiKey, FALSE)
        /\ call.creates = <<>>
        /\ call.localized = 0

\* A non-blank message on a client without credential.
C10_Witness ==
    /\ Done /\ api_key = <<>>
    /\ call.args.user_message = <<"h","i">>
    /\ call.result.error = MsgNoApiKey

(***************************************************************************)
(* C11.  With the caller setting the cancellation event at any point of    *)
(* the run, the event is read once per received stream event, before that  *)
(* event is processed.  Once the check for event k has passed, event k is  *)
(* processed completely whatever the flag has become (its delta appended,  *)
(* the callback invoked with it) and that step never returns a cancelled   *)
(* response: a cancelled response comes only from a check that read the    *)
(* flag set.  The content of a successful streaming response is the        *)
(* concatenation of the whole deltas of a prefix of the received events.   *)
(***************************************************************************)
C11_CancelOncePerEvent ==
    [][ /\ (call.pc = "event" /\ call' # call) =>
             LET delta == DeltaOf(call.events[Len(call.events)])
             IN  /\ call'.full_content = call.full_content \o delta
                 /\ ChunkDeltas(call'.chunks) =
                       ChunkDeltas(call.chunks) \o
                          (IF call.args.on_chunk /\ delta # <<>>
                           THEN <<delta>> ELSE <<>>)
                 /\ call'.flag_reads = call.flag_reads
                 /\ call'.events = call.events
                 /\ call'.pc = "done" => ~call'.result.cancelled
        /\ (call.pc # "done" /\ call'.pc = "done" /\ call'.result.cancelled) =>
             /\ call.pc = "check" /\ cancel_flag
             /\ call'.flag_reads = call.flag_reads + 1
        /\ call.args.cancel_event =>
             call'.flag_reads =
                Len(call'.events) - (IF call'.pc = "check" THEN 1 ELSE 0)
        /\ (call'.pc = "done" /\ call'.args.stream /\ call'.result.success) =>
             \E n \in 0..Len(call'.events) :
                call'.result.content = ConcatDeltas(SubSeq(call'.events, 1, n)) ]_vars

\* The flag was set after the check for the second event, a non-empty
\* delta, had read it unset; the event is still to be processed.
C11_Witness ==
    /\ call.pc = "event" /\ call.args.cancel_event /\ cancel_flag
    /\ call.args.on_chunk
    /\ Len(call.events) = 2 /\ call.flag_reads = 2
    /\ DeltaOf(call.events[2]) # <<>>
    /\ call.full_content # <<>>

(***************************************************************************)
(* C12.  When the cancellation check reads the flag set, the stream is     *)
(* asked for its close function, which is called once when the stream has  *)
(* one; whether there is none, it returns or it raises, the call returns   *)
(* success = true, cancelled = true, error = "" and content = the text     *)
(* accumulated so far.  No other path looks for the close function.        *)
(***************************************************************************)
C12_CloseOutcomeIgnored ==
    /\ (Done /\ call.result.cancelled) =>
          /\ call.stream_close \in CloseOutcomes
          /\ call.closes = (IF call.stream_close = "absent" THEN 0 ELSE 1)
          /\ call.result = ChatResponse(TRUE, call.full_content, <<>>, TRUE)
          /\ call.result.content = ConcatDeltas(EarlierEvents(call))
    /\ call.stream_close # "unread" => (Done /\ call.result.cancelled)

\* Cancellation observed after text was accumulated, on a stream whose
\* close() raises.
C12_Witness ==
    /\ Done /\ call.result.cancelled
    /\ call.stream_close = "raises"
    /\ call.closes = 1
    /\ call.result.content # <<>>

(***************************************************************************)
(* C13.  Two invocations of send_message running concurrently on the same  *)
(* client, under any interleaving of their steps, each go through the      *)
(* states and return the ChatResponse they go through and return alone,    *)
(* given the same transport replies and flag readings: the accumulated     *)
(* text, the attempts made and their ParameterSets are those of the run    *)
(* alone.  No step changes the client: its credential stays what it was    *)
(* and it gets no other attribute.                                         *)
(***************************************************************************)
C13_ConcurrentInvocationsIndependent ==
    [][ /\ client' = client
        /\ DOMAIN client'.v = {"api_key"}
        /\ \A i \in Invocations :
              /\ calls'[i] = alone'[i].call
              /\ calls'[i].pc = "done" =>
                    /\ alone'[i].call.pc = "done"
                    /\ calls'[i].result = alone'[i].call.result
              /\ \A j \in Invocations \ {i} :
                    calls'[i] # calls[i] => calls'[j] = calls[j] ]_vars

\* Both invocations are inside their decode loops with different texts
\* accumulated, the first after a retry and with its event set.
C13_Witness ==
    /\ calls[1].pc = "event" /\ calls[2].pc = "check"
    /\ calls[1].full_content = <<"a","b">>
    /\ calls[2].full_content = <<"c">>
    /\ Len(calls[1].creates) = 2 /\ Len(calls[2].creates) = 1
    /\ flags[1] /\ ~flags[2]

(***************************************************************************)
(* Vocabulary of the classifier properties.                                *)
(***************************************************************************)
\* The rules in the order the claims give them: invalid-key, rate-limit,
\* quota, connectivity, model-not-found, context-length, output-token.
RuleTable ==
    << [patterns |-> {<<"i","n","v","a","l","i","d","_","a","p","i","_","k","e","y">>, <<"i","n","v","a","l","i","d"," ","a","p","i"," ","k","e","y">>},
        message |-> MsgInvalidApiKey],
       [patterns |-> {<<"r","a","t","e","_","l","i","m","i","t">>, <<"r","a","t","e"," ","l","i","m","i","t">>},
        message |-> MsgRateLimit],
       [patterns |-> {<<"i","n","s","u","f","f","i","c","i","e","n","t","_","q","u","o","t","a">>, <<"i","n","s","u","f","f","i","c","i","e","n","t"," ","q","u","o","t","a">>},
        message |-> MsgQuota],
       [patterns |-> {<<"c","o","n","n","e","c","t","i","o","n">>},
        message |-> MsgConnection],
       [patterns |-> {<<"m","o","d","e","l","_","n","o","t","_","f","o","u","n","d">>, <<"m","o","d","e","l"," ","n","o","t"," ","f","o","u","n","d">>},
        message |-> MsgModelNotFound],
       [patterns |-> {<<"c","o","n","t","e","x","t","_","l","e","n","g","t","h">>, <<"m","a","x","i","m","u","m"," ","c","o","n","t","e","x","t">>},
        message |-> MsgContextLength],
       [patterns |-> {<<"m","a","x","_","t","o","k","e","n","s">>, <<"m","a","x","_","o","u","t","p","u","t","_","t","o","k","e","n","s">>},
        message |-> MsgMaxTokens] >>

\* Some pattern of the rule occurs in the text, in any letter case.
RuleMatches(rule, text) == \E p \in rule.patterns : Contains(p, Lower(text))

\* The positions in RuleTable of the rules that match the text.
Matching(text) == {i \in 1..Len(RuleTable) : RuleMatches(RuleTable[i], text)}

\* The classifier has been applied to the probe's text.
Localized == probe.pc \in {"localized", "returned"}

(***************************************************************************)
(* C14 as stated.  Every raw error text that contains a rate-limit marker  *)
(* ("rate_limit" or "rate limit", any letter case) is classified as the    *)
(* rate-limit message, whatever else the text holds.                       *)
(***************************************************************************)
C14_AsStated ==
    (Localized /\ RuleMatches(RuleTable[2], probe.error_message)) =>
        probe.localized = PyStr(MsgRateLimit)

(***************************************************************************)
(* C14.  Every raw error text that contains a rate-limit marker            *)
(* ("rate_limit" or "rate limit", any letter case) and no invalid-key      *)
(* marker is classified as the rate-limit message, whatever text surrounds *)
(* the marker; with an invalid-key marker as well, the text is classified  *)
(* as the invalid-key message.                                             *)
(***************************************************************************)
C14_RateLimitUnlessInvalidKey ==
    (Localized /\ RuleMatches(RuleTable[2], probe.error_message)) =>
        probe.localized =
            PyStr(IF RuleMatches(RuleTable[1], probe.error_message)
                  THEN MsgInvalidApiKey ELSE MsgRateLimit)

\* A rate-limit marker in upper case, with a space, inside other text that
\* matches no earlier rule.
C14_Witness ==
    /\ Localized
    /\ probe.error_message =
          <<"E","r","r","o","r",":"," ">> \o Upper(<<"r","a","t","e"," ","l","i","m","i","t">>)
             \o <<" ","f","o","r"," ","t","h","i","s"," ","m","o","d","e","l">>
    /\ probe.localized = PyStr(MsgRateLimit)

(***************************************************************************)
(* C15.  The classifier matches without regard to letter case and gives    *)
(* the message of the first rule, in the order invalid-key, rate-limit,    *)
(* quota, connectivity, model-not-found, context-length, output-token,     *)
(* that matches the text, wherever in the text the markers stand.          *)
(***************************************************************************)
C15_FirstRuleWins ==
    (Localized /\ Matching(probe.error_message) # {}) =>
        LET first == CHOOSE i \in Matching(probe.error_message) :
                        \A j \in Matching(probe.error_message) : i <= j
        IN  probe.localized = PyStr(RuleTable[first].message)

\* The text holds the marker of the last rule before the marker, with an
\* upper-case letter, of the third: the third rule wins.
C15_Witness ==
    /\ Localized
    /\ probe.error_message =
          <<"m","a","x","_","t","o","k","e","n","s",";"," ">> \o Capitalized(<<"i","n","s","u","f","f","i","c","i","e","n","t","_","q","u","o","t","a">>)
    /\ Matching(probe.error_message) = {3, 7}
    /\ probe.localized = PyStr(MsgQuota)

(***************************************************************************)
(* C16.  A raw error text that matches no rule is returned by the          *)
(* classifier unchanged, in its original letter case, and is the error of  *)
(* the failed ChatResponse (success = false, content = "").                *)
(***************************************************************************)
C16_UnmatchedPassesThrough ==
    (Matching(probe.error_message) = {}) =>
        /\ Localized => probe.localized = PyStr(probe.error_message)
        /\ probe.pc = "returned" => probe.response = Failure(probe.error_message)

\* A text with upper-case letters, close to the rate-limit marker, returned
\* as the error of the response.
C16_Witness ==
    /\ probe.pc = "returned"
    /\ probe.error_message = <<"R","a","t","e","-","l","i","m","i","t"," ","E","x","c","e","e","d","e","d">>
    /\ Matching(probe.error_message) = {}
    /\ probe.response.error = probe.error_message

(***************************************************************************)
(* Vocabulary of the request builder properties.                           *)
(***************************************************************************)
\* Both ParameterSets of the probe have been built.
Built == probe.pc = "retry"

\* The fields of a ParameterSet that are none of model, input, store,
\* stream, temperature and instructions: those that carry the limit.
LimitFields(params) ==
    DOMAIN params \ {"model", "input", "store", "stream", "temperature", "instructions"}

\* The ParameterSet the first attempt builds for another model identifier
\* and otherwise the probe's arguments.
ParamsForModel(model) ==
    AttemptParams(NewCall([probe.args EXCEPT !.model = model]), probe.args.temperature)

C18_TemperatureIffProvided ==
    Built =>
        /\ ("temperature" \in DOMAIN probe.first) <=> (probe.args.temperature # None_)
        /\ probe.args.temperature # None_ =>
              probe.first["temperature"] = probe.args.temperature.v
        /\ "temperature" \notin DOMAIN probe.retry

\* The temperature 0 is in the ParameterSet.
C18_Witness ==
    /\ Built
    /\ probe.args.temperature = PyInt(0)
    /\ "temperature" \in DOMAIN probe.first
    /\ probe.first["temperature"] = 0

(***************************************************************************)
(* C19.  The ParameterSet has an instructions field exactly when the       *)
(* system prompt is not empty after trimming; the field then holds the     *)
(* prompt.  For an empty or whitespace-only prompt the field is absent     *)
(* from the ParameterSet of the first attempt and of the retry; it is      *)
(* never present with an empty value.                                      *)
(***************************************************************************)
C19_InstructionsIffNonBlank ==
    Built =>
        \A params \in {probe.first, probe.retry} :
            /\ ("instructions" \in DOMAIN params) <=> ~IsBlank(probe.args.system_prompt)
            /\ "instructions" \in DOMAIN params =>
                  /\ params["instructions"] = probe.args.system_prompt
                  /\ params["instructions"] # <<>>

\* A whitespace-only prompt with a temperature: neither ParameterSet has
\* the field.
C19_Witness ==
    /\ Built
    /\ probe.args.system_prompt = <<" ","\n","\t">>
    /\ probe.args.temperature = PyInt(7)
    /\ "instructions" \notin DOMAIN probe.first
    /\ "instructions" \notin DOMAIN probe.retry

(***************************************************************************)
(* C20.  A non-streaming call whose create call returns a reply, on the    *)
(* first attempt or on the retry, returns success = true, error = "",      *)
(* cancelled = false and content = the text _extract_output_text finds in  *)
(* that reply, also when that text is empty; nothing is localized and no   *)
(* further create call is made.                                            *)
(***************************************************************************)
C20_NonStreamSuccess ==
    (/\ Done /\ ~call.args.stream
     /\ call.creates # <<>>
     /\ call.creates[Len(call.creates)].error = None_) =>
        /\ call.reply \in Replies
        /\ call.result.success /\ ~call.result.cancelled
        /\ call.result.error = <<>>
        /\ call.result.content = ExtractOutputText(call.reply)
        /\ GetAttr(call.reply, "output_text") = PyStr(<<"H","i">>) =>
              call.result.content = <<"H","i">>
        /\ GetAttr(call.reply, "output_text") = PyStr(<<>>) =>
              call.result.content = <<>>
        /\ call.localized = 0

\* The retry of a non-streaming call returned a reply without any text.
C20_Witness ==
    /\ Done /\ ~call.args.stream
    /\ Len(call.creates) = 2 /\ call.creates[2].error = None_
    /\ call.reply \in Replies
    /\ call.result.success /\ call.result.content = <<>>

(***************************************************************************)
(* Vocabulary of the response extractor properties.                        *)
(***************************************************************************)
\* The extractor has been applied to the probe's reply.
Extracted == probe.pc = "extracted"

\* x is a string with at least one character.
NonEmptyStr(x) == x.t = "str" /\ x.v # <<>>

\* The output items of a reply whose output is a list.
ItemsOf(response) ==
    IF GetAttr(response, "output").t = "list"
    THEN GetAttr(response, "output").v ELSE <<>>

\* The elements of the content of an item whose content is a list.
ElementsOf(item) ==
    IF GetAttr(item, "content").t = "list"
    THEN GetAttr(item, "content").v ELSE <<>>

\* The text field of an element: its attribute, or its key when a dict.
ElementText(el) ==
    IF el.t = "dict"
    THEN (IF "text" \in DOMAIN el.v THEN el.v["text"] ELSE None_)
    ELSE GetAttr(el, "text")

\* An item gives a text by itself: its text, else its string content.
ItemGives(item) ==
    NonEmptyStr(GetAttr(item, "text")) \/ NonEmptyStr(GetAttr(item, "content"))

\* Somewhere in the items of the reply, or in the elements of their
\* content lists, stands a non-empty text.
CarriesText(response) ==
    \E i \in 1..Len(ItemsOf(response)) :
        \/ ItemGives(ItemsOf(response)[i])
        \/ \E j \in 1..Len(ElementsOf(ItemsOf(response)[i])) :
              NonEmptyStr(ElementText(ElementsOf(ItemsOf(response)[i])[j]))

(***************************************************************************)
(* C21.  The extractor returns the top-level output_text whenever it is a  *)
(* non-empty string, whatever the output list holds.  When it is absent,   *)
(* empty or not a string, the items are scanned in list order: among items *)
(* without content lists, the first item that has a non-empty text or a    *)
(* non-empty string content gives the result, its text before its content; *)
(* no such item gives the empty string.                                    *)
(***************************************************************************)
C21_TopLevelThenItemsInOrder ==
    Extracted =>
        LET top == GetAttr(probe.response, "output_text")
            items == ItemsOf(probe.response)
            giving == {i \in 1..Len(items) : ItemGives(items[i])}
            first == CHOOSE i \in giving : \A j \in giving : i <= j
        IN  /\ NonEmptyStr(top) => probe.content = top
            /\ (/\ ~NonEmptyStr(top)
                /\ \A i \in 1..Len(items) : ElementsOf(items[i]) = <<>>) =>
                   probe.content =
                      (IF giving = {} THEN PyStr(<<>>)
                       ELSE IF NonEmptyStr(GetAttr(items[first], "text"))
                       THEN GetAttr(items[first], "text")
                       ELSE GetAttr(items[first], "content"))

\* A top-level text over an output list whose first item has a text.
C21_Witness ==
    /\ Extracted
    /\ GetAttr(probe.response, "output_text") = PyStr(<<"H","i">>)
    /\ ItemsOf(probe.response) = <<PyObj([text |-> PyStr(<<"T">>)])>>
    /\ probe.content = PyStr(<<"H","i">>)

C23_EmptyTextNeverEndsScan ==
    (Extracted /\ ~NonEmptyStr(GetAttr(probe.response, "output_text"))
               /\ CarriesText(probe.response)) =>
        probe.content # PyStr(<<>>)

(***************************************************************************)
(* Vocabulary of the decode loop properties.                               *)
(***************************************************************************)
\* The last event the stream yielded to c.
LastEvent(c) == c.events[Len(c.events)]

\* The text of the payload of a delta event as C28 describes it.
DescribedDelta(event) ==
    LET payload == GetAttr(event, "delta")
        chosen == IF "text" \in DOMAIN payload.v THEN payload.v["text"]
                  ELSE payload.v["content"]
    IN  CASE payload.t = "str" -> payload.v
          [] payload.t = "dict" /\ DOMAIN payload.v \cap {"text", "content"} # {} ->
                IF chosen.t = "str" THEN chosen.v ELSE <<>>
          [] OTHER -> <<>>

RECURSIVE DescribedDeltas(_)
\* The described texts of the delta events of evs, in order, empty ones
\* left out.
DescribedDeltas(evs) ==
    IF evs = <<>> THEN <<>>
    ELSE (IF IsDeltaEvent(Head(evs)) /\ DescribedDelta(Head(evs)) # <<>>
          THEN <<DescribedDelta(Head(evs))>> ELSE <<>>)
         \o DescribedDeltas(Tail(evs))

RECURSIVE Joined(_)
\* The concatenation of a sequence of texts.
Joined(texts) == IF texts = <<>> THEN <<>> ELSE Head(texts) \o Joined(Tail(texts))

(***************************************************************************)
(* C24.  An error event with a message ends the call with the failure      *)
(* whose text, given to the classifier, is the code, ": " and the message  *)
(* when the event has a code, and exactly the message when the code is     *)
(* absent (or empty).                                                      *)
(***************************************************************************)
C24_ErrorEventText ==
    (/\ probe.full.events # <<>>
     /\ IsErrorEvent(LastEvent(probe.full))
     /\ NonEmptyStr(GetAttr(LastEvent(probe.full), "message"))) =>
        LET code == GetAttr(LastEvent(probe.full), "code")
            message == GetAttr(LastEvent(probe.full), "message").v
            text == IF NonEmptyStr(code) THEN code.v \o <<":", " ">> \o message
                    ELSE message
        IN  /\ probe.full.pc = "done"
            /\ probe.full.result = Failure(LocalizeError(text))
            /\ (message = ErrBoom /\ code = None_) =>
                   probe.full.result.error = <<"B","o","o","m">>
            /\ (message = ErrBoom /\ NonEmptyStr(code)) =>
                   probe.full.result.error = <<"E","4","2",":"," ","B","o","o","m">>

\* An error event without code after text was accumulated.
C24_Witness ==
    /\ Len(probe.full.events) = 2
    /\ IsErrorEvent(LastEvent(probe.full))
    /\ GetAttr(LastEvent(probe.full), "code") = None_
    /\ GetAttr(LastEvent(probe.full), "message") = PyStr(ErrBoom)
    /\ probe.full.full_content # <<>>
    /\ probe.full.result.error = ErrBoom

(***************************************************************************)
(* C28.  Delta-text extraction gives the payload itself when it is a       *)
(* string; for a dict the value under "text" when that key is present,     *)
(* else the value under "content" when that key is present, and the empty  *)
(* string when the chosen value is not a string or neither key is present; *)
(* the empty string for an absent payload or another shape.  A delta event *)
(* never fails the call; the accumulated text is the concatenation of the  *)
(* non-empty texts so described and the callback was invoked with each of  *)
(* them, so an empty one changed nothing and invoked nothing.              *)
(***************************************************************************)
C28_DeltaExtractionTotal ==
    /\ probe.full.full_content = Joined(DescribedDeltas(probe.full.events))
    /\ ChunkDeltas(probe.full.chunks) =
          (IF probe.full.args.on_chunk
           THEN DescribedDeltas(probe.full.events) ELSE <<>>)
    /\ (probe.full.events # <<>> /\ IsDeltaEvent(LastEvent(probe.full))
                                /\ ~probe.full.exhausted
                                /\ probe.full.raised = None_) =>
          probe.full.pc = "next"

\* A dict whose "text" is not a string and whose "content" is one, after a
\* dict with both keys: only the first text was accumulated.
C28_Witness ==
    /\ probe.full.pc = "next" /\ probe.full.args.on_chunk
    /\ probe.full.events =
          << DeltaEvent(PyDict([text |-> PyStr(<<"t">>), content |-> PyStr(<<"c">>)])),
             DeltaEvent(PyDict([text |-> PyInt(5), content |-> PyStr(<<"c">>)])) >>
    /\ probe.full.full_content = <<"t">>
    /\ Len(probe.full.chunks) = 1

(***************************************************************************)
(* C29.  An event whose type is neither the delta type nor the error type  *)
(* changes neither the accumulated text nor the callback invocations and   *)
(* does not end the stream: without cancellation, the invocation on the    *)
(* stream with such events and the invocation on the stream without them   *)
(* are at the same position with the same text and the same callback       *)
(* invocations, and return the same ChatResponse.                          *)
(***************************************************************************)
C29_OtherEventsIgnored ==
    /\ probe.full.pc = probe.bare.pc
    /\ probe.full.full_content = probe.bare.full_content
    /\ probe.full.chunks = probe.bare.chunks
    /\ probe.full.result = probe.bare.result
    /\ (probe.full.events # <<>> /\ OtherKind(LastEvent(probe.full))
                                /\ ~probe.full.exhausted
                                /\ probe.full.raised = None_) =>
          probe.full.pc = "next"

\* An event of another type that has a delta attribute, then a delta: the
\* stream went on and only the delta was accumulated.
C29_Witness ==
    /\ probe.full.pc = "next" /\ probe.full.args.on_chunk
    /\ probe.full.events =
          << PyObj([type |-> PyStr(TypeCompleted), delta |-> PyStr(<<"z","z">>)]),
             DeltaEvent(PyStr(<<"a","b">>)) >>
    /\ Len(probe.bare.events) = 1
    /\ probe.full.full_content = <<"a","b">>
    /\ Len(probe.full.chunks) = 1

(***************************************************************************)
(* Vocabulary of the model listing properties.                             *)
(***************************************************************************)
\* fetch_available_models has returned.
Fetched == probe.pc = "fetched"

\* The id strings of the listing.
ListedIds ==
    { GetAttr(probe.outcome.data[i], "id").v :
        i \in { j \in 1..Len(probe.outcome.data) :
                  GetAttr(probe.outcome.data[j], "id").t = "str" } }

\* The id starts with an allow-listed prefix.
Allowed(id) ==
    \/ StartsWith(<<"g","p","t","-">>, id)
    \/ StartsWith(<<"o","1","-">>, id)
    \/ StartsWith(<<"o","3","-">>, id)

\* How many entries of the listing have the id.
TimesListed(id) ==
    Cardinality({ i \in 1..Len(probe.outcome.data) :
                    GetAttr(probe.outcome.data[i], "id") = PyStr(id) })

\* How many entries of the returned list are the id.
TimesReturned(id) ==
    Cardinality({ i \in 1..Len(probe.models.v) : probe.models.v[i] = PyStr(id) })

\* The index of the first priority prefix the id starts with, one past the
\* table for an id that starts with none.
PriorityIndex(id) ==
    LET matching == { i \in 1..Len(priority_order) : StartsWith(priority_order[i], id) }
    IN  IF matching = {} THEN Len(priority_order) + 1
        ELSE CHOOSE i \in matching : \A j \in matching : i <= j

(***************************************************************************)
(* C25.  The list fetch_available_models returns holds exactly the listed  *)
(* ids that start with an allow-listed prefix, each as often as it is      *)
(* listed, ordered by the index of the first priority prefix of each id,   *)
(* ids with no priority prefix last, ids of equal priority in lexical      *)
(* order.                                                                  *)
(***************************************************************************)
C25_FilteredAndRanked ==
    (Fetched /\ probe.models.t = "list") =>
        /\ \A id \in ListedIds :
              TimesReturned(id) = IF Allowed(id) THEN TimesListed(id) ELSE 0
        /\ \A i \in 1..Len(probe.models.v) : probe.models.v[i].v \in ListedIds
        /\ \A i, j \in 1..Len(probe.models.v) :
              i < j =>
                LET a == probe.models.v[i].v
                    b == probe.models.v[j].v
                IN  \/ PriorityIndex(a) < PriorityIndex(b)
                    \/ PriorityIndex(a) = PriorityIndex(b) /\ (a = b \/ StrLess(a, b))

\* A listing in the reverse of the priority order, with an id that is not
\* kept: 'gpt-4o' comes before 'gpt-4.1' and an id with no priority prefix
\* comes last.
C25_Witness ==
    /\ Fetched
    /\ probe.outcome.ok
    /\ probe.outcome.data =
          << PyObj([id |-> PyStr(<<"g","p","t","-","i","m","a","g","e","-","1">>)]),
             PyObj([id |-> PyStr(<<"g","p","t","-","4",".","1">>)]),
             PyObj([id |-> PyStr(<<"g","p","t","-","4","o">>)]) >>
    /\ probe.models =
          StrList(<< <<"g","p","t","-","4","o">>,
                     <<"g","p","t","-","4",".","1">>,
                     <<"g","p","t","-","i","m","a","g","e","-","1">> >>)

(***************************************************************************)
(* C26.  fetch_available_models returns None when the key is empty (and    *)
(* then makes no listing call), when the listing call fails, and when no   *)
(* listed id passes the prefix filter; in every other case it returns a    *)
(* non-empty list.  It never returns an empty list.                        *)
(***************************************************************************)
C26_AbsentOrNonEmpty ==
    Fetched =>
        LET empty_key == probe.api_key = <<>>
            fails == ~probe.outcome.ok
            none_passes == probe.outcome.ok /\ \A id \in ListedIds : ~Allowed(id)
        IN  /\ empty_key => ~probe.listed
            /\ (empty_key \/ fails \/ none_passes) => probe.models = None_
            /\ ~(empty_key \/ fails \/ none_passes) =>
                  probe.models.t = "list" /\ probe.models.v # <<>>
            /\ probe.models # PyList(<<>>)

\* A listing of ids of which none is kept, fetched with a key.
C26_Witness ==
    /\ Fetched
    /\ probe.api_key # <<>>
    /\ probe.listed
    /\ probe.outcome.ok
    /\ Len(probe.outcome.data) = 2
    /\ ListedIds = { <<"o","1">>, <<"w","h","i","s","p","e","r","-","1">> }
    /\ probe.models = None_

(***************************************************************************)
(* C27.  When _on_models_fetched is given a list, the items of the combo   *)
(* box become exactly the fetched list in its order, so that an item of    *)
(* the previous list is kept only if it is in the fetched list; when it is *)
(* given None, the items and the current selection stay as they are.       *)
(***************************************************************************)
C27_RefreshReplacesOrKeeps ==
    [][ (probe.pc = "emitted" /\ probe'.pc = "shown") =>
          IF probe.models.t = "list"
          THEN /\ probe'.model_combo.items = TextsOf(probe.models)
               /\ \A i \in 1..Len(probe.model_combo.items) :
                     (\E j \in 1..Len(probe'.model_combo.items) :
                        probe'.model_combo.items[j] = probe.model_combo.items[i])
                     => PyStr(probe.model_combo.items[i]) \in
                          { probe.models.v[k] : k \in 1..Len(probe.models.v) }
          ELSE /\ probe.models = None_
               /\ probe'.model_combo.items = probe.model_combo.items
               /\ probe'.model_combo.index = probe.model_combo.index
      ]_vars

\* The window after a fetch of two models of which one was listed before
\* and selected: the list is the fetched one and the selection is kept.
C27_Witness ==
    /\ probe.pc = "shown"
    /\ probe.status = StatusUpdated
    /\ probe.models = StrList(<< <<"g","p","t","-","5">>, <<"g","p","t","-","4",".","1">> >>)
    /\ probe.model_combo = [items |-> << <<"g","p","t","-","5">>, <<"g","p","t","-","4",".","1">> >>, index |-> 1]

(***************************************************************************)
(* Vocabulary of the negotiation property.                                 *)
(***************************************************************************)
\* The five rejection keywords.
RejectionKeywords ==
    { <<"u","n","s","u","p","p","o","r","t","e","d">>,
      <<"n","o","t"," ","s","u","p","p","o","r","t","e","d">>,
      <<"u","n","k","n","o","w","n">>,
      <<"i","n","v","a","l","i","d">>,
      <<"u","n","r","e","c","o","g","n","i","z","e","d">> }

\* The failure message of the first create call.
FailureMessage == NegotiationMessage(probe.word, probe.subject, probe.word_first)

\* The message, compared case-insensitively, has "temperature" and one of
\* the keywords.
DescribedRejection ==
    /\ \E i \in 0..(Len(FailureMessage) - 11) :
          Lower(SubSeq(FailureMessage, i + 1, i + 11)) = <<"t","e","m","p","e","r","a","t","u","r","e">>
    /\ \E kw \in RejectionKeywords :
          \E i \in 0..(Len(FailureMessage) - Len(kw)) :
            Lower(SubSeq(FailureMessage, i + 1, i + Len(kw))) = kw

(***************************************************************************)
(* C30.  The first create call's failure is followed by the retry if and   *)
(* only if its message, compared case-insensitively, contains              *)
(* "temperature" and one of "unsupported", "not supported", "unknown",     *)
(* "invalid", "unrecognized"; a keyword without "temperature" and          *)
(* "temperature" without a keyword end the call with one create call.      *)
(***************************************************************************)
C30_TemperatureRejectionIff ==
    (probe.call.pc # "create") =>
        /\ (probe.call.pc = "retry" \/ Len(probe.call.creates) = 2) <=> DescribedRejection
        /\ DescribedRejection <=>
              /\ Lower(probe.subject) = <<"t","e","m","p","e","r","a","t","u","r","e">>
              /\ Lower(probe.word) \in RejectionKeywords
        /\ ~DescribedRejection =>
              /\ probe.call.pc = "done"
              /\ Len(probe.call.creates) = 1
              /\ probe.call.result = Failure(LocalizeError(FailureMessage))

\* A rejection in capitals was retried, and the retry failed.
C30_Witness ==
    /\ probe.word = Upper(<<"n","o","t"," ","s","u","p","p","o","r","t","e","d">>)
    /\ probe.subject = Capitalized(<<"t","e","m","p","e","r","a","t","u","r","e">>)
    /\ ~probe.word_first
    /\ probe.call.pc = "done"
    /\ Len(probe.call.creates) = 2
    /\ probe.call.result = Failure(ErrBoom)

(***************************************************************************)
(* C31.  With a transport that answers every request and a stream of       *)
(* finitely many events, send_message returns: the call reaches its return *)
(* once, with one ChatResponse, and nothing of the invocation changes      *)
(* after that.  The decode loop ends at the end of the stream (the         *)
(* iterator ends, or raises), at the first check that reads the            *)
(* cancellation flag set, or at the first error event that is processed,   *)
(* whichever comes first.                                                  *)
(***************************************************************************)
C31_TerminatesOnce ==
    /\ <>Done
    /\ [](Done \/ StepOfCall(call, api_key, cancel_flag, ScriptedInput(call, probe)) # call)
    /\ [][ /\ Done => call' = call
           /\ (call.pc # "done" /\ call'.pc = "done") =>
                 call.result = None_ /\ call'.result # None_
           /\ (call.pc # "done" /\ call'.pc # "done") => call'.result = None_
           /\ (call.pc = "next" /\ call' # call) =>
                 IF Len(call.events) < Len(probe.stream)
                 THEN call'.pc = "check" /\ Len(call'.events) = Len(call.events) + 1
                 ELSE call'.pc = "done" /\ call'.events = call.events
           /\ (call.pc = "check" /\ call.args.cancel_event /\ cancel_flag) =>
                 call'.pc = "done" /\ call'.result.cancelled
           /\ (call.pc = "event" /\ IsErrorEvent(LastEvent(call)) /\ call' # call) =>
                 call'.pc = "done" /\ ~call'.result.success
           /\ (call.pc \in {"next", "check", "event"} /\ call'.pc = "done") =>
                 \/ call.pc = "next" /\ call.events = probe.stream
                 \/ call.pc = "check" /\ cancel_flag
                 \/ call.pc = "event" /\ IsErrorEvent(LastEvent(call)) ]_vars

\* A call that returned at an error event, its second event, with the flag
\* set after the check for that event and more of the script undone.
C31_Witness ==
    /\ Done /\ call.args.cancel_event /\ cancel_flag
    /\ ~call.result.success
    /\ Len(call.events) = 1
    /\ Len(probe.stream) = 2
    /\ IsErrorEvent(LastEvent(call))
    /\ call.flag_reads = 1

(***************************************************************************)
(* C32.  A create call that succeeded is the last create call of the       *)
(* invocation: the retry position is reached only from a failed first      *)
(* create call.  A failure raised by the stream iterator, or an error      *)
(* event that is processed, whose text matches the temperature-rejection   *)
(* pattern ends the call as failed with the classifier's output, with no   *)
(* further create call.                                                    *)
(***************************************************************************)
C32_NoRetryAfterStreamOpened ==
    /\ [](
          /\ \A k \in 1..Len(call.creates) :
                call.creates[k].error = None_ => k = Len(call.creates)
          /\ call.pc = "retry" => (Len(call.creates) = 1 /\ FirstCreateFailed(call))
          /\ call.pc \in {"next", "check", "event"} =>
                (call.creates # <<>> /\ call.creates[Len(call.creates)].error = None_)
          /\ (call.raised # None_ /\ IsTemperatureError(call.raised.v)) =>
                /\ Done
                /\ call.result = Failure(LocalizeError(call.raised.v))
                /\ call.creates[Len(call.creates)].error = None_
          /\ ( /\ call.events # <<>>
               /\ IsErrorEvent(LastEvent(call))
               /\ IsTemperatureError(ErrorEventText(LastEvent(call)))
               /\ call.pc \notin {"check", "event"}
               /\ ~(Done /\ call.result.cancelled) ) =>
                /\ Done
                /\ call.result = Failure(LocalizeError(ErrorEventText(LastEvent(call))))
                /\ call.creates[Len(call.creates)].error = None_
         )
    /\ [][(call.creates # <<>> /\ call.creates[Len(call.creates)].error = None_) =>
             call'.creates = call.creates]_vars

\* The iterator of a stream opened by the first create call, which sent the
\* temperature, raised a temperature rejection after text had arrived.
C32_Witness ==
    /\ Done /\ call.args.stream
    /\ call.raised = PyStr(ErrTempUnsupported)
    /\ Len(call.creates) = 1
    /\ "temperature" \in DOMAIN call.creates[1].params
    /\ call.full_content # <<>>
    /\ ~call.result.success

(***************************************************************************)
(* C33.  The ParameterSet of the retry has no temperature field and is     *)
(* otherwise the ParameterSet of the first attempt: the same fields among  *)
(* model, input, max_output_tokens, stream, store and instructions, each   *)
(* with the same value.                                                    *)
(***************************************************************************)
C33_RetryDiffersInTemperatureOnly ==
    Built =>
        /\ "temperature" \notin DOMAIN probe.retry
        /\ DOMAIN probe.retry = DOMAIN probe.first \ {"temperature"}
        /\ \A field \in DOMAIN probe.retry : probe.retry[field] = probe.first[field]
        /\ DOMAIN probe.first \subseteq
              {"model", "input", "max_output_tokens", "stream", "store",
               "instructions", "temperature"}

\* A streaming first attempt with temperature and instructions, and its
\* retry.
C33_Witness ==
    /\ Built
    /\ DOMAIN probe.first =
          {"model", "input", "max_output_tokens", "stream", "store",
           "instructions", "temperature"}
    /\ probe.first["temperature"] = 7
    /\ probe.retry["instructions"] = <<" ","B","e"," ","b","r","i","e","f"," ">>
    /\ probe.retry["stream"]

(***************************************************************************)
(* C34.  At every state of an invocation with a callback, the texts the    *)
(* callback was invoked with, concatenated in order, are the accumulated   *)
(* text.  When the call has returned at an observed cancellation or at a   *)
(* processed error event, the callback was invoked for the events before   *)
(* that one only; the content of a cancelled response is exactly the text  *)
(* the callback received.  Without callback nothing is invoked.            *)
(***************************************************************************)
C34_CallbackTextIsAccumulator ==
    /\ [](
          IF call.args.on_chunk
          THEN /\ Joined(ChunkDeltas(call.chunks)) = call.full_content
               /\ (Done /\ call.result.cancelled) =>
                     /\ call.result.content = Joined(ChunkDeltas(call.chunks))
                     /\ ChunkDeltas(call.chunks) = NonEmptyDeltas(EarlierEvents(call))
               /\ (Done /\ call.events # <<>> /\ IsErrorEvent(LastEvent(call))) =>
                     ChunkDeltas(call.chunks) = NonEmptyDeltas(EarlierEvents(call))
          ELSE call.chunks = <<>>
         )
    /\ [][call'.chunks # call.chunks =>
             /\ call.pc = "event"
             /\ call.args.on_chunk
             /\ Len(call'.chunks) = Len(call.chunks) + 1
             /\ call'.full_content
                   = call.full_content \o call'.chunks[Len(call'.chunks)].delta]_vars

\* Cancellation observed at the third event after two increments, of which
\* the callback raised on the first.
C34_Witness ==
    /\ Done /\ call.result.cancelled /\ call.args.on_chunk
    /\ Len(call.events) = 3
    /\ Len(call.chunks) = 2
    /\ call.chunks[1].raised
    /\ call.result.content = <<"a","b","c">>

(***************************************************************************)
(* C35.  The cancellation event is read only when an event has arrived.    *)
(* When the stream has ended and the flag is set (it was set after the     *)
(* check for the last event, or the stream had no event), the call has     *)
(* returned success = true, cancelled = false with the whole accumulated   *)
(* text, the flag was read once per event and the stream was never asked   *)
(* for its close function.  A cancelled response comes after at least one  *)
(* event.                                                                  *)
(***************************************************************************)
C35_LateCancelNotObserved ==
    /\ [](
          /\ (call.exhausted /\ call.args.cancel_event /\ cancel_flag) =>
                /\ Done
                /\ call.result = ChatResponse(TRUE, ConcatDeltas(call.events), <<>>, FALSE)
                /\ call.result.content = call.full_content
                /\ call.flag_reads = Len(call.events)
                /\ call.stream_close = "unread"
                /\ call.closes = 0
          /\ (Done /\ call.result.cancelled) => call.events # <<>>
          /\ call.events = <<>> => call.flag_reads = 0
         )
    /\ [][call'.flag_reads # call.flag_reads =>
             /\ call.pc = "check"
             /\ call'.flag_reads = call.flag_reads + 1
             /\ Len(call.events) = call'.flag_reads]_vars

\* The flag was set during a call whose stream had no event.
C35_Witness ==
    /\ Done /\ call.exhausted
    /\ call.args.cancel_event /\ cancel_flag
    /\ call.events = <<>>
    /\ call.result = ChatResponse(TRUE, <<>>, <<>>, FALSE)

\* The worker threads of the window that have not ended.
InFlight == { id \in 1..Len(probe.threads) : IsRunning(probe.threads[id]) }

\* A send request is handled in this step.
RequestHandled == probe'.requests = probe.requests + 1

(***************************************************************************)
(* C36.  At most one API worker is in flight, and it is the one the        *)
(* window refers to; one client is created per worker started.  A send     *)
(* request (button or Ctrl+Enter) handled while a worker runs starts no    *)
(* worker, creates no client and leaves the output text, the worker        *)
(* reference, the connections and the controls as they are.                *)
(***************************************************************************)
C36_OneWorkerInFlight ==
    /\ [](/\ Cardinality(InFlight) <= 1
          /\ probe.open => InFlight \subseteq {probe.worker}
          /\ probe.clients = Len(probe.threads))
    /\ [][(RequestHandled /\ InFlight # {}) =>
             /\ probe'.threads = probe.threads
             /\ probe'.clients = probe.clients
             /\ probe'.output_text = probe.output_text
             /\ probe'.worker = probe.worker
             /\ probe'.queue = probe.queue
             /\ ControlsEnabled(probe') = ControlsEnabled(probe)]_vars

\* The second worker runs, and a third request with a key and a message
\* has been handled without starting a worker.
C36_Witness ==
    /\ probe.requests = 3
    /\ Len(probe.threads) = 2
    /\ probe.worker = 2
    /\ probe.threads[2].state = "running"
    /\ probe.status = StatusRequesting
    /\ probe.clients = 2

\* The workers started so far.
Started == 1..Len(probe.threads)

(***************************************************************************)
(* C37.  While the window stays open, every worker a send request started  *)
(* has its result delivered to _on_response, and the step that delivers    *)
(* it leaves the send button and all settings controls enabled; controls   *)
(* that are disabled are enabled again, however further send requests      *)
(* (Ctrl+Enter included) interleave with the worker's completion.          *)
(***************************************************************************)
C37_ResponseDeliveredControlsEnabled ==
    /\ \A id \in 1..MaxWorkers :
          (id \in Started) ~> (id \in probe.delivered \/ ~probe.open)
    /\ (~ControlsEnabled(probe)) ~> (ControlsEnabled(probe) \/ ~probe.open)
    /\ [][probe'.delivered # probe.delivered => ControlsEnabled(probe')]_vars
    /\ [](probe.delivered \subseteq Started)

\* The first worker ended and, before its result was delivered, Ctrl+Enter
\* started the second one; both results have been delivered.
C37_Witness ==
    /\ probe.open
    /\ probe.delivered = {1, 2}
    /\ ~probe.threads[1].finished_connected
    /\ ControlsEnabled(probe)
    /\ probe.queue = <<>>

\* A call of the configuration's method op returns in this step.
Returns(op) ==
    /\ probe'.ops = probe.ops + 1
    /\ probe'.returned # None_
    /\ probe'.returned.op = op

\* The index is one of the list's (from 0).
InRange(index, presets) == 0 <= index /\ index < Len(presets)

(***************************************************************************)
(* C38.  The preset list of an AppConfig is never empty under add_preset,  *)
(* remove_preset and update_preset.  remove_preset deletes the entry at    *)
(* the index and returns True exactly when the index is in range and more  *)
(* than one preset exists; otherwise it returns False and the presets and  *)
(* active_preset_index are as before.  update_preset with an index out of  *)
(* range returns False and changes nothing of the configuration.           *)
(***************************************************************************)
C38_PresetsNeverEmpty ==
    /\ [](probe.config.presets # <<>>)
    /\ [][Returns("remove_preset") =>
             LET index == probe'.returned.index
                 presets == probe.config.presets
             IN  IF InRange(index, presets) /\ Len(presets) > 1
                 THEN /\ probe'.returned.value = TRUE
                      /\ probe'.config.presets = DelItem(presets, index)
                 ELSE /\ probe'.returned.value = FALSE
                      /\ probe'.config.presets = presets
                      /\ probe'.config.active_preset_index
                            = probe.config.active_preset_index]_vars
    /\ [][(Returns("update_preset")
           /\ ~InRange(probe'.returned.index, probe.config.presets)) =>
             /\ probe'.returned.value = FALSE
             /\ probe'.config = probe.config]_vars

\* remove_preset was refused on the only preset of a configuration.
C38_Witness ==
    /\ probe.returned # None_
    /\ probe.returned.op = "remove_preset"
    /\ probe.returned.index = 0
    /\ probe.returned.value = FALSE
    /\ Len(probe.config.presets) = 1

(***************************************************************************)
(* C39.  From a default AppConfig, whatever presets are added, removed or  *)
(* updated, whichever preset button is clicked, whatever is typed in the   *)
(* system prompt field and whatever the accepted preset editor returns,    *)
(* active_preset_index is -1 or an index of the current preset list.       *)
(***************************************************************************)
C39_ActiveIndexValid ==
    \/ probe.config.active_preset_index = -1
    \/ InRange(probe.config.active_preset_index, probe.config.presets)

\* The last preset was active, the editor removed a preset and was
\* accepted: the first preset is active.
C39_Witness ==
    /\ ~EditorOpen
    /\ Len(probe.config.presets) = 4
    /\ probe.config.active_preset_index = 0
    /\ probe.config.system_prompt = <<"E","X">>
    /\ probe.preset_buttons = 4

=============================================================================
